---- MODULE Spec2Model ----
(***************************************************************************)
(* Model of the tjo-cloud console controller: four resource kinds (User,  *)
(* Database on PostgreSQL; Bucket, Token on the Garage object store), each *)
(* reconciled by a driver that wraps Apply/Cleanup in the finalizer        *)
(* protocol and hands errors to an error policy.                           *)
(*                                                                         *)
(* One reconciliation of one object is one atomic action: the controller   *)
(* runtime never runs two reconciliations of the same object at once, and  *)
(* the object cannot disappear while it carries the finalizer marker.      *)
(* Every call that leaves the process (event recorder, API server, SQL     *)
(* backend, storage API) may fail: the input f of a reconciliation names   *)
(* the position of the call that fails transiently (0: none).              *)
(***************************************************************************)
EXTENDS Integers, Sequences, FiniteSets, Bags, TLC

\* ------------------------------------------------------------------------
\* Program constants
\* ------------------------------------------------------------------------
RequeueSecs == 300

PasswordLen == 16

FINALIZER == "FINALIZER"

\* ------------------------------------------------------------------------
\* Bounds of the model
\* ------------------------------------------------------------------------
\* number of increments the failures family may have received
MaxFailures == 2

\* positions of the call that fails in one reconciliation (0: no failure)
MaxCalls == 8

\* connections that are lost in one run
MaxLost == 1

\* characters in the name of a namespace or of an object
MaxLabelLen == 2

FailAt == 0..MaxCalls

\* ------------------------------------------------------------------------
\* Universe: objects, specs, backends
\* ------------------------------------------------------------------------
Namespace == "ns"

UserIds == {<<"User", "app">>, <<"User", "illegal">>}

DatabaseIds == {<<"Database", "app">>, <<"Database", "illegal">>}

BucketIds == {<<"Bucket", "app">>, <<"Bucket", "held">>}

TokenIds == {<<"Token", "app">>}

ResIds == UserIds \cup DatabaseIds \cup BucketIds \cup TokenIds

\* the objects of one run: those of one API group that can refer to each
\* other. An object named "illegal" is turned away before any lookup or
\* backend call, and the two API groups share no backend and no secret name,
\* so objects of different groups meet only in the metrics family and the
\* diagnostics record
\* The Bucket "held" carries the finalizer of another controller; it runs
\* on its own
Groups ==
    {{<<"User", "app">>, <<"Database", "app">>},
     {<<"User", "illegal">>, <<"Database", "illegal">>},
     {<<"Bucket", "app">>} \cup TokenIds,
     {<<"Bucket", "held">>}}

GroupOf(id) == CHOOSE g \in Groups : id \in g

\* keys of ctx.postgresql_clients (built once at start from the settings)
PostgresqlClients == {"pg1", "pg2"}

\* servers a spec may name: the registered ones and one that is not
ServerNames == PostgresqlClients \cup {"pg9"}

UserSpecs(id) ==
    [server : IF id[2] = "illegal" THEN {"pg1", "pg9"} ELSE ServerNames,
     password_secret_name : {"s1"}, connection_limit : {5}]

DatabaseSpecs(id) ==
    [server : {"pg1", "pg9"},
     connection_limit : {10}, owner_ref : {"app"}]

BucketSpecs == [name : {"b1"}]

TokenSpecs ==
    [bucketRef : {"app"}, tokenSecretName : {"s2"}, name : {"t1"},
     reader : {TRUE}, writer : BOOLEAN, owner : {FALSE}]

SpecsOf(id) ==
    CASE id[1] = "User" -> UserSpecs(id)
      [] id[1] = "Database" -> DatabaseSpecs(id)
      [] id[1] = "Bucket" -> BucketSpecs
      [] id[1] = "Token" -> TokenSpecs

\* passwords Alphanumeric.sample_string can return (all of length PasswordLen)
Passwords == {[len |-> PasswordLen, chars |-> "alnum", value |-> v] : v \in {"pwA", "pwB"}}

\* only User::reconcile samples a password
PasswordsFor(id) ==
    IF id[1] = "User" THEN Passwords
    ELSE {[len |-> 0, chars |-> "alnum", value |-> ""]}

\* a finalizer that is not this controller's
OTHER_FINALIZER == "OTHER"

\* the finalizers an object may be submitted with: the object named "held"
\* is held by another controller as well
ForeignFinalizers(id) ==
    IF id[2] = "held" THEN {{OTHER_FINALIZER}} ELSE {{}}

NoSpec == [none |-> TRUE]

Absent ==
    [present |-> FALSE, spec |-> NoSpec, finalizers |-> {}, deleting |-> FALSE,
     status |-> <<>>, applied |-> FALSE, missed |-> FALSE]

\* requests of the diagnostics endpoint that may be in flight at once
Readers == {<<"GET", "r1">>, <<"GET", "r2">>}

\* the tasks that take the lock of the diagnostics record: one reconciliation
\* per object (the runtime runs the reconciliations of different objects side
\* by side, never two of one object) and the requests of the endpoint
Tasks == ResIds \cup Readers

\* RwLock::new(Diagnostics::default()): no holder, nobody waiting
Unlocked == [writer |-> {}, readers |-> {}, queue |-> <<>>]

VARIABLES
    objs,       \* API server: the custom resources, by (kind, name)
    secrets,    \* API server: the secrets of the namespace, by name
    roles,      \* SQL backends: roles per registered server
    dbs,        \* SQL backends: databases per registered server
    buckets,    \* storage: buckets
    keys,       \* storage: access keys
    grants,     \* storage: permissions of a key on a bucket
    failures,   \* metrics: number of increments the failures family received
    last_event, \* diagnostics: the time of startup or of a reconciliation
    alive,      \* the kinds whose controller loop runs
    connected,  \* SQL backends: the registered servers whose connection is up
    last,       \* record of the reconciliation that just ended, if one did
    group,      \* the objects this run submits
    probe,      \* arguments and results of a function applied on its own
    pc,         \* where each task stands: reconcilers by object, and readers
    lock        \* the reader-writer lock of the diagnostics record

vars ==
    <<objs, secrets, roles, dbs, buckets, keys, grants, failures, last_event,
      alive, connected, last, group, probe, pc, lock>>

World ==
    [objs |-> objs, secrets |-> secrets, roles |-> roles, dbs |-> dbs,
     buckets |-> buckets, keys |-> keys, grants |-> grants,
     connected |-> connected]

\* ------------------------------------------------------------------------
\* Results, errors, actions, the trace of calls of one reconciliation
\* ------------------------------------------------------------------------
\* variant: the interval is taken for milliseconds
requeue_from_millis(n) == [requeue_after |-> <<n \div 1000>>]

\* Action::requeue(Duration::from_secs(n))
requeue(n) == [requeue_after |-> <<n>>]

\* Action::await_change()
await_change == [requeue_after |-> <<>>]

NoError == [outer |-> "", stage |-> "", kind |-> "", detail |-> ""]

\* an Error value of lib.rs; the API server's reply is kept for a KubeError
Error(kind, detail) == [outer |-> "", stage |-> "", kind |-> kind, detail |-> detail]

Ok(action) == [tag |-> "ok", action |-> action, err |-> NoError]

Err(e) == [tag |-> "err", action |-> await_change, err |-> e]

\* a panic unwinds out of the reconciler
Panicked == [tag |-> "panic", action |-> await_change, err |-> NoError]

Call(sys, op, arg, ok) == [sys |-> sys, op |-> op, arg |-> arg, ok |-> ok]

\* the call about to be appended to the trace is the one chosen to fail
Fails(calls, f) == f = Len(calls) + 1

\* what a piece of sequential code leaves behind: the world, the calls it
\* made, and what it returned
Done(w, calls, out) == [w |-> w, calls |-> calls, out |-> out]

\* let v = ...; K(v): the value of a statement, named for the code after it.
\* The value is computed once, before the code after it runs
Bind(v, K(_)) == CHOOSE r \in {K(x) : x \in {v}} : TRUE

\* ctx.recorder.publish(&Event { reason, .. }, &oref)
Publish(calls, f, reason, id) ==
    Append(calls, Call("recorder", "publish", [reason |-> reason, oref |-> id],
                       ~Fails(calls, f)))

\* ------------------------------------------------------------------------
\* SQL backends (ctx.postgresql_clients[server].execute)
\* ------------------------------------------------------------------------
RoleNames(w, server) == {r.name : r \in w.roles[server]}

DbNames(w, server) == {d.name : d \in w.dbs[server]}

\* the statement reaches the backend (the client's connection is up) and the
\* backend accepts it
SqlAccepts(w, server, stmt) ==
    /\ server \in w.connected
    /\ (CASE stmt.verb = "CREATE USER" -> stmt.name \notin RoleNames(w, server)
          [] stmt.verb = "CREATE DATABASE" ->
                /\ stmt.name \notin DbNames(w, server)
                /\ stmt.owner \in RoleNames(w, server)
          [] stmt.verb = "DROP DATABASE" -> stmt.name \in DbNames(w, server)
          [] stmt.verb = "DROP USER" ->
                /\ stmt.name \in RoleNames(w, server)
                /\ \A d \in w.dbs[server] : d.owner # stmt.name)

\* the backend's state after an accepted statement
SqlEffect(w, server, stmt) ==
    CASE stmt.verb = "CREATE USER" ->
            [w EXCEPT !.roles[server] =
                @ \cup {[name |-> stmt.name, password |-> stmt.password]}]
      [] stmt.verb = "CREATE DATABASE" ->
            [w EXCEPT !.dbs[server] =
                @ \cup {[name |-> stmt.name, owner |-> stmt.owner]}]
      [] stmt.verb = "DROP DATABASE" ->
            [w EXCEPT !.dbs[server] = {d \in @ : d.name # stmt.name}]
      [] stmt.verb = "DROP USER" ->
            [w EXCEPT !.roles[server] = {r \in @ : r.name # stmt.name}]

\* variant: the result of execute() is not propagated
Execute_unchecked(w, calls, f, server, stmt) ==
    LET ok == ~Fails(calls, f) /\ SqlAccepts(w, server, stmt)
    IN  [ok |-> TRUE,
         calls |-> Append(calls, Call("sql", "execute",
                                      [server |-> server, stmt |-> stmt], ok)),
         w |-> IF ok THEN SqlEffect(w, server, stmt) ELSE w]

\* variant: a CREATE statement is not sent when what it creates exists
Execute_if_absent(w, calls, f, server, stmt) ==
    IF \/ stmt.verb = "CREATE USER" /\ stmt.name \in RoleNames(w, server)
       \/ stmt.verb = "CREATE DATABASE" /\ stmt.name \in DbNames(w, server)
    THEN [ok |-> TRUE, calls |-> calls, w |-> w]
    ELSE LET ok == ~Fails(calls, f) /\ SqlAccepts(w, server, stmt)
         IN  [ok |-> ok,
              calls |-> Append(calls, Call("sql", "execute",
                                           [server |-> server, stmt |-> stmt], ok)),
              w |-> IF ok THEN SqlEffect(w, server, stmt) ELSE w]

\* one execute(): the call record and the world after it
Execute(w, calls, f, server, stmt) ==
    LET ok == ~Fails(calls, f) /\ SqlAccepts(w, server, stmt)
    IN  [ok |-> ok,
         calls |-> Append(calls, Call("sql", "execute",
                                      [server |-> server, stmt |-> stmt], ok)),
         w |-> IF ok THEN SqlEffect(w, server, stmt) ELSE w]

\* ------------------------------------------------------------------------
\* API server: secrets
\* ------------------------------------------------------------------------
SecretNames == {"s1", "s2"}

NoSecret ==
    [present |-> FALSE, data |-> <<>>, immutable |-> FALSE, owner |-> <<>>,
     dangling |-> FALSE]

\* variant: the secret is written with replace semantics
SecretCreate_overwrite(w, name, secret) ==
    [ok |-> TRUE, detail |-> "",
     w |-> [w EXCEPT !.secrets[name] =
               [present |-> TRUE, data |-> secret.data,
                immutable |-> secret.immutable, owner |-> secret.owner,
                dangling |-> FALSE]]]

\* secrets.create(&PostParams::default(), &secret): a POST, refused with
\* 409 when the name is taken
SecretCreate(w, name, secret) ==
    IF w.secrets[name].present
    THEN [ok |-> FALSE, detail |-> "Conflict", w |-> w]
    ELSE [ok |-> TRUE, detail |-> "",
          w |-> [w EXCEPT !.secrets[name] =
                    [present |-> TRUE, data |-> secret.data,
                     immutable |-> secret.immutable, owner |-> secret.owner,
                     dangling |-> FALSE]]]

\* variant: the result of create() is not propagated
CreateSecret_unchecked(w, calls, f, name, secret) ==
    LET r == IF Fails(calls, f)
             THEN [ok |-> FALSE, detail |-> "Transient", w |-> w]
             ELSE SecretCreate(w, name, secret)
    IN  [ok |-> TRUE, detail |-> r.detail, w |-> r.w,
         calls |-> Append(calls, Call("secret", "create",
                                      [name |-> name, secret |-> secret], r.ok))]

\* the create call with its place in the trace
CreateSecret(w, calls, f, name, secret) ==
    LET r == IF Fails(calls, f)
             THEN [ok |-> FALSE, detail |-> "Transient", w |-> w]
             ELSE SecretCreate(w, name, secret)
    IN  [ok |-> r.ok, detail |-> r.detail, w |-> r.w,
         calls |-> Append(calls, Call("secret", "create",
                                      [name |-> name, secret |-> secret], r.ok))]

\* variant: the patch replaces the object, metadata included
PatchStatus_replace(w, calls, f, id, status) ==
    LET ok == ~Fails(calls, f)
    IN  [ok |-> ok,
         calls |-> Append(calls, Call("kube", "patch_status",
                                      [id |-> id, status |-> status], ok)),
         w |-> IF ok THEN [w EXCEPT !.objs[id].status = <<status>>,
                                    !.objs[id].finalizers = {}]
               ELSE w]

\* api.patch_status(&name, &ps, &new_status): server-side apply of status
PatchStatus(w, calls, f, id, status) ==
    LET ok == ~Fails(calls, f)
    IN  [ok |-> ok,
         calls |-> Append(calls, Call("kube", "patch_status",
                                      [id |-> id, status |-> status], ok)),
         w |-> IF ok THEN [w EXCEPT !.objs[id].status = <<status>>] ELSE w]

\* variant: a missing object is not reported
Get_always_found(w, calls, f, id) ==
    LET ok == ~Fails(calls, f)
    IN  [ok |-> ok,
         detail |-> IF Fails(calls, f) THEN "Transient" ELSE "NotFound",
         calls |-> Append(calls, Call("kube", "get", id, ok))]

\* api.get(&name)
Get(w, calls, f, id) ==
    LET ok == ~Fails(calls, f) /\ w.objs[id].present
    IN  [ok |-> ok,
         detail |-> IF Fails(calls, f) THEN "Transient" ELSE "NotFound",
         calls |-> Append(calls, Call("kube", "get", id, ok))]

\* ------------------------------------------------------------------------
\* resources/postgresql/database.rs
\* ------------------------------------------------------------------------
\* variant: the created flag is never read
was_created_never(self) == FALSE

\* variant: the created flag is read negated
was_created_inverted(self) == IF self.status = <<>> THEN FALSE ELSE ~self.status[1].created

\* self.status.as_ref().map(|s| s.created).unwrap_or(false)
was_created(self) == IF self.status = <<>> THEN FALSE ELSE self.status[1].created

\* variant: namespace and name are joined without a separator
format_unseparated(namespace, n) == namespace \o n

\* format!("{}_{}", namespace, name)
format(namespace, n) == namespace \o "_" \o n

\* Database::name, User::name: the object's namespace and name, formatted
name(id) == format(Namespace, id[2])

\* variant: no name is rejected
is_illegal_never(n) == FALSE

\* name == "illegal"
is_illegal(n) == n = "illegal"

\* variant: every server name is taken for a registered one
contains_key_always(server) == TRUE

\* ctx.postgresql_clients.contains_key(&server)
contains_key(server) == server \in PostgresqlClients

\* variant: the servers of owner and database are not compared
servers_match_always(user, database) == TRUE

\* !(user.spec.server != database.spec.server)
servers_match(user, database) == user.spec.server = database.spec.server

DatabaseReconcile(self, id, w, c0, f) ==
    IF was_created(self) THEN Done(w, c0, Ok(requeue(RequeueSecs))) ELSE
    Bind(Publish(c0, f, "CreationRequested", id), LAMBDA c1 :
    IF ~c1[Len(c1)].ok THEN Done(w, c1, Err(Error("KubeError", "Transient"))) ELSE
    IF is_illegal(id[2]) THEN Done(w, c1, Err(Error("PostgresqlIllegalDatabase", ""))) ELSE
    Bind(Get(w, c1, f, id), LAMBDA g :
    IF ~g.ok THEN Done(w, g.calls, Err(Error("KubeError", g.detail))) ELSE
    Bind(w.objs[id], LAMBDA database :
    IF ~contains_key(database.spec.server)
    THEN Done(w, g.calls, Err(Error("PostgresqlUnknownServer", ""))) ELSE
    Bind(Get(w, g.calls, f, <<"User", database.spec.owner_ref>>), LAMBDA gu :
    IF ~gu.ok THEN Done(w, gu.calls, Err(Error("KubeError", gu.detail))) ELSE
    Bind(w.objs[<<"User", database.spec.owner_ref>>], LAMBDA user :
    \* user.status.expect("User Status is not yet defined")
    IF user.status = <<>> THEN Done(w, gu.calls, Panicked) ELSE
    IF ~servers_match(user, database)
    THEN Done(w, gu.calls, Err(Error("PostgresqlUserAndDatabaseServerNotMatching", ""))) ELSE
    Bind(Execute(w, gu.calls, f, database.spec.server,
                 [verb |-> "CREATE DATABASE", name |-> name(id),
                  owner |-> user.status[1].name,
                  connection_limit |-> database.spec.connection_limit]), LAMBDA x :
    IF ~x.ok THEN Done(x.w, x.calls, Err(Error("PostgresqlClientError", ""))) ELSE
    Bind(Publish(x.calls, f, "CreationCompleted", id), LAMBDA c5 :
    IF ~c5[Len(c5)].ok THEN Done(x.w, c5, Err(Error("KubeError", "Transient"))) ELSE
    Bind(PatchStatus(x.w, c5, f, id, [created |-> TRUE, name |-> name(id)]), LAMBDA p :
    IF ~p.ok THEN Done(p.w, p.calls, Err(Error("KubeError", "Transient"))) ELSE
    Done(p.w, p.calls, Ok(requeue(RequeueSecs)))))))))))

DatabaseCleanup(self, id, w, c0, f) ==
    Bind(Publish(c0, f, "DeleteRequested", id), LAMBDA c1 :
    IF ~c1[Len(c1)].ok THEN Done(w, c1, Err(Error("KubeError", "Transient"))) ELSE
    Bind(Get(w, c1, f, id), LAMBDA g :
    IF ~g.ok THEN Done(w, g.calls, Err(Error("KubeError", g.detail))) ELSE
    Bind(w.objs[id], LAMBDA database :
    IF ~contains_key(database.spec.server)
    THEN Done(w, g.calls, Err(Error("PostgresqlUnknownServer", ""))) ELSE
    Bind(Execute(w, g.calls, f, database.spec.server,
                 [verb |-> "DROP DATABASE", name |-> name(id)]), LAMBDA x :
    IF ~x.ok THEN Done(x.w, x.calls, Err(Error("PostgresqlClientError", ""))) ELSE
    Done(x.w, x.calls, Ok(await_change))))))

\* ------------------------------------------------------------------------
\* resources/postgresql/user.rs
\* ------------------------------------------------------------------------
\* pw: the password Alphanumeric.sample_string(&mut rand::rng(), 16) returned
UserReconcile(self, id, w, c0, f, pw) ==
    IF was_created(self) THEN Done(w, c0, Ok(requeue(RequeueSecs))) ELSE
    Bind(Publish(c0, f, "CreationRequested", id), LAMBDA c1 :
    IF ~c1[Len(c1)].ok THEN Done(w, c1, Err(Error("KubeError", "Transient"))) ELSE
    IF is_illegal(id[2]) THEN Done(w, c1, Err(Error("PostgresqlIllegalUser", ""))) ELSE
    Bind(Get(w, c1, f, id), LAMBDA g :
    IF ~g.ok THEN Done(w, g.calls, Err(Error("KubeError", g.detail))) ELSE
    Bind(w.objs[id], LAMBDA user :
    IF ~contains_key(user.spec.server)
    THEN Done(w, g.calls, Err(Error("PostgresqlUnknownServer", ""))) ELSE
    Bind(Execute(w, g.calls, f, user.spec.server,
                 [verb |-> "CREATE USER", name |-> name(id), password |-> pw,
                  connection_limit |-> user.spec.connection_limit]), LAMBDA x :
    IF ~x.ok THEN Done(x.w, x.calls, Err(Error("PostgresqlClientError", ""))) ELSE
    Bind(CreateSecret(x.w, x.calls, f, user.spec.password_secret_name,
                      [data |-> [password |-> pw, username |-> name(id),
                                 host |-> user.spec.server, port |-> "5432"],
                       immutable |-> TRUE, owner |-> <<>>]), LAMBDA s :
    IF ~s.ok THEN Done(s.w, s.calls, Err(Error("KubeError", s.detail))) ELSE
    Bind(Publish(s.calls, f, "CreationCompleted", id), LAMBDA c5 :
    IF ~c5[Len(c5)].ok THEN Done(s.w, c5, Err(Error("KubeError", "Transient"))) ELSE
    Bind(PatchStatus(s.w, c5, f, id, [created |-> TRUE, name |-> name(id)]), LAMBDA p :
    IF ~p.ok THEN Done(p.w, p.calls, Err(Error("KubeError", "Transient"))) ELSE
    Done(p.w, p.calls, Ok(requeue(RequeueSecs))))))))))

UserCleanup(self, id, w, c0, f) ==
    Bind(Publish(c0, f, "DeleteRequested", id), LAMBDA c1 :
    IF ~c1[Len(c1)].ok THEN Done(w, c1, Err(Error("KubeError", "Transient"))) ELSE
    Bind(Get(w, c1, f, id), LAMBDA g :
    IF ~g.ok THEN Done(w, g.calls, Err(Error("KubeError", g.detail))) ELSE
    Bind(w.objs[id], LAMBDA user :
    IF ~contains_key(user.spec.server)
    THEN Done(w, g.calls, Err(Error("PostgresqlUnknownServer", ""))) ELSE
    Bind(Execute(w, g.calls, f, user.spec.server,
                 [verb |-> "DROP USER", name |-> name(id)]), LAMBDA x :
    IF ~x.ok THEN Done(x.w, x.calls, Err(Error("PostgresqlClientError", ""))) ELSE
    Done(x.w, x.calls, Ok(await_change))))))

\* ------------------------------------------------------------------------
\* garage.rs: the storage admin API and its client
\* ------------------------------------------------------------------------
\* ids the storage assigns, in the order it assigns them
BucketIdPool == <<"xyz", "abc">>

KeyIdPool == <<"GK1", "GK2">>

Flags(permissions) ==
    {fl \in {"read", "write", "owner"} : permissions[fl]}

\* variant: the status of the reply is not looked at
create_bucket_unchecked(w, calls, f, global_alias) ==
    LET ok == /\ ~Fails(calls, f)
              /\ w.buckets.issued < Len(BucketIdPool)
              /\ \A b \in w.buckets.live : b.alias # global_alias
        id == IF ok THEN BucketIdPool[w.buckets.issued + 1] ELSE ""
    IN  [ok |-> TRUE, id |-> id,
         calls |-> Append(calls, Call("garage", "CreateBucket",
                                      [global_alias |-> global_alias], ok)),
         w |-> IF ok
               THEN [w EXCEPT !.buckets =
                        [issued |-> @.issued + 1,
                         live |-> @.live \cup {[id |-> id, alias |-> global_alias]}]]
               ELSE w]

\* create_bucket(global_alias): one POST; Ok(Bucket { id }) on a success status
create_bucket(w, calls, f, global_alias) ==
    LET ok == /\ ~Fails(calls, f)
              /\ w.buckets.issued < Len(BucketIdPool)
              /\ \A b \in w.buckets.live : b.alias # global_alias
        id == IF ok THEN BucketIdPool[w.buckets.issued + 1] ELSE ""
    IN  [ok |-> ok, id |-> id,
         calls |-> Append(calls, Call("garage", "CreateBucket",
                                      [global_alias |-> global_alias], ok)),
         w |-> IF ok
               THEN [w EXCEPT !.buckets =
                        [issued |-> @.issued + 1,
                         live |-> @.live \cup {[id |-> id, alias |-> global_alias]}]]
               ELSE w]

\* delete_bucket(id): one POST
delete_bucket(w, calls, f, id) ==
    LET ok == ~Fails(calls, f) /\ \E b \in w.buckets.live : b.id = id
    IN  [ok |-> ok,
         calls |-> Append(calls, Call("garage", "DeleteBucket", [id |-> id], ok)),
         w |-> IF ok
               THEN [w EXCEPT !.buckets.live = {b \in @ : b.id # id},
                              !.grants = {g \in @ : g[1] # id}]
               ELSE w]

\* create_key(name): one POST to the path of CreateBucket with the body of a
\* key; the storage tells the two requests apart by their body and answers
\* this one with the new key. Ok(Key { id, secret, .. }) on a success status
create_key(w, calls, f, key_name) ==
    LET ok == ~Fails(calls, f) /\ w.keys.issued < Len(KeyIdPool)
        id == IF ok THEN KeyIdPool[w.keys.issued + 1] ELSE ""
    IN  [ok |-> ok, id |-> id, secret |-> "secret-" \o id,
         calls |-> Append(calls, Call("garage", "CreateBucket",
                                      [name |-> key_name,
                                       allow |-> [createBucket |-> FALSE],
                                       deny |-> [createBucket |-> TRUE],
                                       neverExpires |-> TRUE], ok)),
         w |-> IF ok
               THEN [w EXCEPT !.keys =
                        [issued |-> @.issued + 1,
                         live |-> @.live \cup {[id |-> id, name |-> key_name]}]]
               ELSE w]

\* variant: the request is sent a second time when the first one failed
delete_key_retry(w, calls, f, id) ==
    LET known == \E k \in w.keys.live : k.id = id
        first == Append(calls, Call("garage", "DeleteKey", [id |-> id],
                                    ~Fails(calls, f) /\ known))
        gone == [w EXCEPT !.keys.live = {k \in @ : k.id # id},
                          !.grants = {g \in @ : g[2] # id}]
    IN  IF first[Len(first)].ok THEN [ok |-> TRUE, calls |-> first, w |-> gone]
        ELSE [ok |-> known,
              calls |-> Append(first, Call("garage", "DeleteKey", [id |-> id],
                                           known)),
              w |-> IF known THEN gone ELSE w]

\* delete_key(id): one POST
delete_key(w, calls, f, id) ==
    LET ok == ~Fails(calls, f) /\ \E k \in w.keys.live : k.id = id
    IN  [ok |-> ok,
         calls |-> Append(calls, Call("garage", "DeleteKey", [id |-> id], ok)),
         w |-> IF ok
               THEN [w EXCEPT !.keys.live = {k \in @ : k.id # id},
                              !.grants = {g \in @ : g[2] # id}]
               ELSE w]

\* bucket_key_permissions(bucket_id, key_id, permissions, kind): one POST to
\* AllowBucketKey or DenyBucketKey; the storage sets, respectively clears,
\* every flag sent as true
bucket_key_permissions(w, calls, f, bucket_id, key_id, permissions, kind) ==
    LET ok == /\ ~Fails(calls, f)
              /\ \E b \in w.buckets.live : b.id = bucket_id
              /\ \E k \in w.keys.live : k.id = key_id
        sent == {<<bucket_id, key_id, fl>> : fl \in Flags(permissions)}
    IN  [ok |-> ok,
         calls |-> Append(calls, Call("garage", kind,
                                      [bucketId |-> bucket_id, accessKeyId |-> key_id,
                                       permissions |-> permissions], ok)),
         w |-> IF ~ok THEN w
               ELSE IF kind = "AllowBucketKey"
               THEN [w EXCEPT !.grants = @ \cup sent]
               ELSE [w EXCEPT !.grants = @ \ sent]]

\* variant: the Deny request is sent whatever the Allow request returned
set_bucket_permissions_deny_always(w, calls, f, bucket_id, key_id, permissions) ==
    Bind(bucket_key_permissions(w, calls, f, bucket_id, key_id, permissions,
                                "AllowBucketKey"), LAMBDA allow :
    bucket_key_permissions(allow.w, allow.calls, f, bucket_id, key_id,
                           permissions, "DenyBucketKey"))

\* variant: the permissions are only allowed
set_bucket_permissions_allow_only(w, calls, f, bucket_id, key_id, permissions) ==
    bucket_key_permissions(w, calls, f, bucket_id, key_id, permissions,
                           "AllowBucketKey")

set_bucket_permissions(w, calls, f, bucket_id, key_id, permissions) ==
    Bind(bucket_key_permissions(w, calls, f, bucket_id, key_id, permissions,
                                "AllowBucketKey"), LAMBDA allow :
    IF allow.ok
    THEN bucket_key_permissions(allow.w, allow.calls, f, bucket_id, key_id,
                                permissions, "DenyBucketKey")
    ELSE allow)

\* ------------------------------------------------------------------------
\* resources/s3/bucket.rs
\* ------------------------------------------------------------------------
\* variant: the stored id is not read
get_id_empty(self) == ""

\* self.status.as_ref().map(|s| s.id.clone()).unwrap_or("".to_string())
get_id(self) == IF self.status = <<>> THEN "" ELSE self.status[1].id

BucketReconcile(self, id, w, c0, f) ==
    IF was_created(self) THEN Done(w, c0, Ok(requeue(RequeueSecs))) ELSE
    Bind(Publish(c0, f, "CreationRequested", id), LAMBDA c1 :
    IF ~c1[Len(c1)].ok THEN Done(w, c1, Err(Error("KubeError", "Transient"))) ELSE
    Bind(create_bucket(w, c1, f, self.spec.name), LAMBDA bucket :
    IF ~bucket.ok THEN Done(bucket.w, bucket.calls, Err(Error("GarageClientError", ""))) ELSE
    Bind(Publish(bucket.calls, f, "CreationCompleted", id), LAMBDA c3 :
    IF ~c3[Len(c3)].ok THEN Done(bucket.w, c3, Err(Error("KubeError", "Transient"))) ELSE
    Bind(PatchStatus(bucket.w, c3, f, id, [created |-> TRUE, id |-> bucket.id]), LAMBDA p :
    IF ~p.ok THEN Done(p.w, p.calls, Err(Error("KubeError", "Transient"))) ELSE
    Done(p.w, p.calls, Ok(requeue(RequeueSecs)))))))

\* variant: the result of delete_bucket is dropped
BucketCleanup_swallow(self, id, w, c0, f) ==
    Bind(Publish(c0, f, "DeleteRequested", id), LAMBDA c1 :
    IF ~c1[Len(c1)].ok THEN Done(w, c1, Err(Error("KubeError", "Transient"))) ELSE
    Bind(delete_bucket(w, c1, f, get_id(self)), LAMBDA d :
    Done(d.w, d.calls, Ok(await_change))))

BucketCleanup(self, id, w, c0, f) ==
    Bind(Publish(c0, f, "DeleteRequested", id), LAMBDA c1 :
    IF ~c1[Len(c1)].ok THEN Done(w, c1, Err(Error("KubeError", "Transient"))) ELSE
    Bind(delete_bucket(w, c1, f, get_id(self)), LAMBDA d :
    IF ~d.ok THEN Done(d.w, d.calls, Err(Error("GarageClientError", ""))) ELSE
    Done(d.w, d.calls, Ok(await_change))))

\* ------------------------------------------------------------------------
\* resources/s3/token.rs
\* ------------------------------------------------------------------------
TokenReconcile(self, id, w, c0, f) ==
    IF was_created(self) THEN Done(w, c0, Ok(requeue(RequeueSecs))) ELSE
    Bind(Publish(c0, f, "CreationRequested", id), LAMBDA c1 :
    IF ~c1[Len(c1)].ok THEN Done(w, c1, Err(Error("KubeError", "Transient"))) ELSE
    Bind(create_key(w, c1, f, self.spec.name), LAMBDA key :
    IF ~key.ok THEN Done(key.w, key.calls, Err(Error("GarageClientError", ""))) ELSE
    Bind(CreateSecret(key.w, key.calls, f, self.spec.tokenSecretName,
                      [data |-> [accessKeyId |-> key.id,
                                 secretAccessKey |-> key.secret],
                       immutable |-> TRUE, owner |-> <<id>>]), LAMBDA s :
    IF ~s.ok THEN Done(s.w, s.calls, Err(Error("KubeError", s.detail))) ELSE
    Bind(Get(s.w, s.calls, f, <<"Bucket", self.spec.bucketRef>>), LAMBDA g :
    IF ~g.ok THEN Done(s.w, g.calls, Err(Error("KubeError", g.detail))) ELSE
    Bind(s.w.objs[<<"Bucket", self.spec.bucketRef>>], LAMBDA bucket :
    Bind(set_bucket_permissions(s.w, g.calls, f, get_id(bucket), key.id,
                                [read |-> self.spec.reader,
                                 write |-> self.spec.writer,
                                 owner |-> self.spec.owner]), LAMBDA perm :
    IF ~perm.ok THEN Done(perm.w, perm.calls, Err(Error("GarageClientError", ""))) ELSE
    Bind(Publish(perm.calls, f, "CreationCompleted", id), LAMBDA c7 :
    IF ~c7[Len(c7)].ok THEN Done(perm.w, c7, Err(Error("KubeError", "Transient"))) ELSE
    Bind(PatchStatus(perm.w, c7, f, id, [created |-> TRUE, id |-> key.id]), LAMBDA p :
    IF ~p.ok THEN Done(p.w, p.calls, Err(Error("KubeError", "Transient"))) ELSE
    Done(p.w, p.calls, Ok(requeue(RequeueSecs)))))))))))

TokenCleanup(self, id, w, c0, f) ==
    Bind(Publish(c0, f, "DeleteRequested", id), LAMBDA c1 :
    IF ~c1[Len(c1)].ok THEN Done(w, c1, Err(Error("KubeError", "Transient"))) ELSE
    Bind(delete_key(w, c1, f, get_id(self)), LAMBDA d :
    IF ~d.ok THEN Done(d.w, d.calls, Err(Error("GarageClientError", ""))) ELSE
    Done(d.w, d.calls, Ok(await_change))))

\* ------------------------------------------------------------------------
\* The finalizer protocol (kube::runtime::finalizer::finalizer) as each
\* driver calls it
\* ------------------------------------------------------------------------
Apply(self, id, w, c0, f, pw) ==
    CASE id[1] = "Database" -> DatabaseReconcile(self, id, w, c0, f)
      [] id[1] = "User" -> UserReconcile(self, id, w, c0, f, pw)
      [] id[1] = "Bucket" -> BucketReconcile(self, id, w, c0, f)
      [] id[1] = "Token" -> TokenReconcile(self, id, w, c0, f)

Cleanup(self, id, w, c0, f) ==
    CASE id[1] = "Database" -> DatabaseCleanup(self, id, w, c0, f)
      [] id[1] = "User" -> UserCleanup(self, id, w, c0, f)
      [] id[1] = "Bucket" -> BucketCleanup(self, id, w, c0, f)
      [] id[1] = "Token" -> TokenCleanup(self, id, w, c0, f)

\* variant: Cleanup runs on every object that is being deleted
FinalizerEvent_cleanup_unmarked(self) ==
    CASE self.deleting -> "Cleanup"
      [] FINALIZER \in self.finalizers /\ ~self.deleting -> "Apply"
      [] FINALIZER \notin self.finalizers /\ ~self.deleting -> "AddFinalizer"

\* variant: the deletion timestamp is not looked at
FinalizerEvent_ignores_deletion(self) ==
    IF FINALIZER \in self.finalizers THEN "Apply" ELSE "AddFinalizer"

\* which arm of the protocol the object is in
FinalizerEvent(self) ==
    CASE FINALIZER \in self.finalizers /\ ~self.deleting -> "Apply"
      [] FINALIZER \in self.finalizers /\ self.deleting -> "Cleanup"
      [] FINALIZER \notin self.finalizers /\ ~self.deleting -> "AddFinalizer"
      [] FINALIZER \notin self.finalizers /\ self.deleting -> "Nothing"

\* finalizer::Error::{ApplyFailed, CleanupFailed, AddFinalizer, RemoveFinalizer}
Staged(stage, out) ==
    IF out.tag = "err"
    THEN [out EXCEPT !.err.stage = stage]
    ELSE out

\* the object leaves the API server: secrets it owns lose their owner
Remove(w, id) ==
    [w EXCEPT !.objs[id] = Absent,
              !.secrets = [n \in DOMAIN @ |->
                              IF @[n].present /\ @[n].owner = <<id>>
                              THEN [@[n] EXCEPT !.dangling = TRUE]
                              ELSE @[n]]]

\* the JSON patch that removes the marker; the API server then completes the
\* deletion of an object that is being deleted and has no finalizer left
RemoveFinalizer(w, calls, f, id) ==
    LET ok == ~Fails(calls, f)
        left == w.objs[id].finalizers \ {FINALIZER}
    IN  [ok |-> ok,
         calls |-> Append(calls, Call("kube", "patch",
                                      [id |-> id, remove |-> FINALIZER], ok)),
         w |-> IF ~ok THEN w
               ELSE IF left = {} THEN Remove(w, id)
               ELSE [w EXCEPT !.objs[id].finalizers = left]]

\* the JSON patch that adds the marker
AddFinalizer(w, calls, f, id) ==
    LET ok == ~Fails(calls, f)
    IN  [ok |-> ok,
         calls |-> Append(calls, Call("kube", "patch",
                                      [id |-> id, add |-> FINALIZER], ok)),
         w |-> IF ok
               THEN [w EXCEPT !.objs[id].finalizers = @ \cup {FINALIZER}]
               ELSE w]

\* the result of the protocol, with the event it handed to the reconciler
Ran(event, w, calls, out) == [event |-> event, w |-> w, calls |-> calls, out |-> out]

\* variant: the marker is removed whatever Cleanup returned
finalizer_always_removes(self, id, w, c0, f, pw) ==
    CASE FinalizerEvent(self) = "Apply" ->
            Bind(Apply(self, id, w, c0, f, pw), LAMBDA r :
            Ran("Apply", r.w, r.calls, Staged("ApplyFailed", r.out)))
      [] FinalizerEvent(self) = "Cleanup" ->
            Bind(Cleanup(self, id, w, c0, f), LAMBDA r :
            Bind(RemoveFinalizer(r.w, r.calls, f, id), LAMBDA q :
            IF r.out.tag # "ok"
            THEN Ran("Cleanup", q.w, q.calls, Staged("CleanupFailed", r.out))
            ELSE IF q.ok THEN Ran("Cleanup", q.w, q.calls, r.out)
            ELSE Ran("Cleanup", q.w, q.calls,
                     Staged("RemoveFinalizer",
                            Err(Error("KubeError", "Transient"))))))
      [] FinalizerEvent(self) = "AddFinalizer" ->
            Bind(AddFinalizer(w, c0, f, id), LAMBDA p :
            IF p.ok THEN Ran("AddFinalizer", p.w, p.calls, Ok(await_change))
            ELSE Ran("AddFinalizer", p.w, p.calls,
                     Staged("AddFinalizer",
                            Err(Error("KubeError", "Transient")))))
      [] FinalizerEvent(self) = "Nothing" -> Ran("Nothing", w, c0, Ok(await_change))

finalizer(self, id, w, c0, f, pw) ==
    CASE FinalizerEvent(self) = "Apply" ->
            Bind(Apply(self, id, w, c0, f, pw), LAMBDA r :
            Ran("Apply", r.w, r.calls, Staged("ApplyFailed", r.out)))
      [] FinalizerEvent(self) = "Cleanup" ->
            Bind(Cleanup(self, id, w, c0, f), LAMBDA r :
            IF r.out.tag # "ok"
            THEN Ran("Cleanup", r.w, r.calls, Staged("CleanupFailed", r.out)) ELSE
            Bind(RemoveFinalizer(r.w, r.calls, f, id), LAMBDA p :
            IF p.ok THEN Ran("Cleanup", p.w, p.calls, r.out)
            ELSE Ran("Cleanup", p.w, p.calls,
                     Staged("RemoveFinalizer",
                            Err(Error("KubeError", "Transient"))))))
      [] FinalizerEvent(self) = "AddFinalizer" ->
            Bind(AddFinalizer(w, c0, f, id), LAMBDA p :
            IF p.ok THEN Ran("AddFinalizer", p.w, p.calls, Ok(await_change))
            ELSE Ran("AddFinalizer", p.w, p.calls,
                     Staged("AddFinalizer",
                            Err(Error("KubeError", "Transient")))))
      [] FinalizerEvent(self) = "Nothing" -> Ran("Nothing", w, c0, Ok(await_change))

\* ------------------------------------------------------------------------
\* The driver of each kind: reconcile and error_policy
\* ------------------------------------------------------------------------
\* the driver's reconcile: ... finalizer(..).await.map_err(Error::FinalizerError)
reconcile(self, id, w, f, pw) ==
    Bind(finalizer(self, id, w, <<>>, f, pw), LAMBDA r :
    IF r.out.tag = "err"
    THEN [r EXCEPT !.out.err.outer = "FinalizerError"]
    ELSE r)

to_lowercase(str) ==
    CASE str = "FinalizerError" -> "finalizererror"
      [] str = "ApplyFailed" -> "applyfailed"
      [] str = "CleanupFailed" -> "cleanupfailed"
      [] str = "AddFinalizer" -> "addfinalizer"
      [] str = "RemoveFinalizer" -> "removefinalizer"
      [] str = "KubeError" -> "kubeerror"
      [] str = "NotFound" -> "notfound"
      [] str = "Conflict" -> "conflict"
      [] str = "Transient" -> "transient"
      [] str = "PostgresqlClientError" -> "postgresqlclienterror"
      [] str = "GarageClientError" -> "garageclienterror"
      [] str = "PostgresqlIllegalDatabase" -> "postgresqlillegaldatabase"
      [] str = "PostgresqlIllegalUser" -> "postgresqlillegaluser"
      [] str = "PostgresqlUnknownServer" -> "postgresqlunknownserver"
      [] str = "PostgresqlUserAndDatabaseServerNotMatching" ->
            "postgresqluseranddatabaseservernotmatching"
      [] OTHER -> str

\* format!("{self:?}").to_lowercase() of Error::FinalizerError(stage(kind(detail)))
metric_label(e) ==
    <<to_lowercase(e.outer), to_lowercase(e.stage), to_lowercase(e.kind),
      to_lowercase(e.detail)>>

api_version(id) ==
    IF id[1] \in {"User", "Database"} THEN "postgresql.tjo.cloud/v1"
    ELSE "s3.tjo.cloud/v1"

\* ReconcileMetrics::set_failure: failures.get_or_create(&labels).inc().
\* The family is kept as the number of increments it received; the label set
\* of an increment is kept with the reconciliation that caused it.
set_failure(fam, version, kind, instance, e) ==
    [failures |-> fam + 1,
     counted |-> <<[api_version |-> version, api_kind |-> kind,
                    instance |-> instance, error |-> metric_label(e)]>>]

\* variant: the retry is scheduled after a tenth of the interval
error_policy_short(fam, id, e) ==
    LET m == set_failure(fam, api_version(id), id[1], id[2], e)
    IN  [failures |-> m.failures, counted |-> m.counted, published |-> <<>>,
         action |-> requeue(RequeueSecs \div 10)]

\* error_policy(object, error, ctx): warn!, set_failure, Action::requeue. The
\* family after it, the events it hands to the recorder (none: it holds no
\* call of ctx.recorder), and the action
error_policy(fam, id, e) ==
    LET m == set_failure(fam, api_version(id), id[1], id[2], e)
    IN  [failures |-> m.failures, counted |-> m.counted, published |-> <<>>,
         action |-> requeue(RequeueSecs)]

\* Utc::now() at startup (Diagnostics::default) and in a reconciliation
StartupTime == "startup"

ReconcileTime == "reconcile"

\* variant: the time is written after the protocol returned Ok
set_last_event_on_success(before, out) ==
    IF out.tag = "ok" THEN ReconcileTime ELSE before

\* ctx.diagnostics.write().await.last_event = Utc::now(): the statement
\* stands before the call of finalizer(), so it has taken effect whatever
\* the protocol returns, and also when the reconciler panics
set_last_event(before, out) == ReconcileTime

\* status.created of an object as the API server holds it
Created(obj) == obj.status # <<>> /\ obj.status[1].created

NoRun ==
    [id |-> <<"", "">>, event |-> "", f |-> 0, created |-> FALSE,
     applied |-> FALSE, calls |-> <<>>, out |-> Ok(await_change),
     gone |-> FALSE,
     action |-> await_change, counted |-> <<>>, published |-> <<>>]

\* ------------------------------------------------------------------------
\* Actions
\* ------------------------------------------------------------------------
\* an external actor submits desired state; the object may carry the
\* finalizer of another controller
Submit(id, spec, foreign) ==
    /\ ~objs[id].present
    /\ GroupOf(id) = group
    /\ objs' = [objs EXCEPT ![id] = [Absent EXCEPT !.present = TRUE,
                                                   !.spec = spec,
                                                   !.finalizers = foreign]]
    /\ last' = NoRun
    /\ UNCHANGED <<secrets, roles, dbs, buckets, keys, grants, failures,
                   last_event, alive, connected, group, probe,
                   pc, lock>>

\* an external actor requests deletion
RequestDelete(id) ==
    /\ objs[id].present
    /\ ~objs[id].deleting
    /\ IF objs[id].finalizers = {}
       THEN /\ objs' = Remove(World, id).objs
            /\ secrets' = Remove(World, id).secrets
       ELSE /\ objs' = [objs EXCEPT ![id].deleting = TRUE]
            /\ UNCHANGED secrets
    /\ last' = NoRun
    /\ UNCHANGED <<roles, dbs, buckets, keys, grants, failures, last_event,
                   alive, connected, group, probe,
                   pc, lock>>

\* the other controller removes its finalizer from an object that is being
\* deleted; the API server then completes the deletion if none is left
ForeignRelease(id) ==
    /\ objs[id].present
    /\ objs[id].deleting
    /\ OTHER_FINALIZER \in objs[id].finalizers
    /\ IF objs[id].finalizers = {OTHER_FINALIZER}
       THEN /\ objs' = Remove(World, id).objs
            /\ secrets' = Remove(World, id).secrets
       ELSE /\ objs' = [objs EXCEPT ![id].finalizers = @ \ {OTHER_FINALIZER}]
            /\ UNCHANGED secrets
    /\ last' = NoRun
    /\ UNCHANGED <<roles, dbs, buckets, keys, grants, failures, last_event,
                   alive, connected, group, probe,
                   pc, lock>>

\* the API server's garbage collector deletes a secret whose owner is gone
GarbageCollect(n) ==
    /\ secrets[n].present
    /\ secrets[n].dangling
    /\ secrets' = [secrets EXCEPT ![n] = NoSecret]
    /\ last' = NoRun
    /\ UNCHANGED <<objs, roles, dbs, buckets, keys, grants, failures,
                   last_event, alive, connected, group, probe,
                   pc, lock>>

\* the resource kinds: each has a controller loop of its own
Kinds == {id[1] : id \in ResIds}

\* A panic of a reconciliation unwinds through the stream its controller loop
\* polls: that loop ends.  Whether the loops of the other kinds end with it
\* depends on how the process runs them (joined in one task, or one task
\* each) and on whether the build aborts on panic.
PanicOutcomes(kind) == {{}, alive \ {kind}}

\* the reconciliation failed at the lookup of an object that does not exist
\* (the object itself carries the marker and cannot be gone, so this is the
\* owner User of a Database or the Bucket of a Token)
MissedDependency(out) ==
    out.tag = "err" /\ out.err.kind = "KubeError" /\ out.err.detail = "NotFound"

\* The world a reconciliation runs in. The reconciler is handed the object
\* as the controller's cache holds it; by the time it runs, an actor may
\* have removed the object from the API server, finalizers and all.
Dispatched(w, id, gone) == IF gone THEN Remove(w, id) ELSE w

\* the controller runtime runs one reconciliation of the object and applies
\* the error policy to an error; applied and missed are history: an Apply of
\* the object has run, an Apply of the object has missed its dependency.
\* The failures family is followed up to MaxFailures increments: either the
\* run ends there, or (saturate) the count stays there and the run goes on
RunWith(id, f, pw, gone, saturate) ==
    /\ id[1] \in alive
    /\ objs[id].present
    /\ \E r \in {reconcile(objs[id], id, Dispatched(World, id, gone), f, pw)} :
       LET self == objs[id]
           out == r.out
           pol == error_policy(failures, id, out.err)
           o2 == IF r.w.objs[id].present /\ r.event = "Apply"
                 THEN [r.w.objs EXCEPT ![id].applied = TRUE,
                                       ![id].missed = @ \/ MissedDependency(out)]
                 ELSE r.w.objs
       IN  /\ out.tag = "err" => (saturate \/ failures < MaxFailures)
           /\ objs' = o2
           /\ secrets' = r.w.secrets
           /\ roles' = r.w.roles
           /\ dbs' = r.w.dbs
           /\ buckets' = r.w.buckets
           /\ keys' = r.w.keys
           /\ grants' = r.w.grants
           /\ failures' = IF out.tag # "err" THEN failures
                          ELSE IF pol.failures > MaxFailures THEN MaxFailures
                          ELSE pol.failures
           /\ last_event' = set_last_event(last_event, out)
           /\ alive' \in IF out.tag = "panic" THEN PanicOutcomes(id[1])
                        ELSE {alive}
           /\ last' = [id |-> id, event |-> r.event, f |-> f,
                       created |-> Created(self), applied |-> self.applied,
                       calls |-> r.calls, out |-> out, gone |-> gone,
                       action |-> IF out.tag = "err" THEN pol.action ELSE out.action,
                       counted |-> IF out.tag = "err" THEN pol.counted ELSE <<>>,
                       published |-> IF out.tag = "err" THEN pol.published
                                     ELSE <<>>]
           /\ UNCHANGED <<connected, group, probe>>

Run(id, f, pw, gone) == RunWith(id, f, pw, gone, FALSE)

\* a reconciliation of an object that is in the API server when it is loaded
Reconcile(id, f, pw) ==
    /\ Run(id, f, pw, FALSE)
    /\ UNCHANGED <<pc, lock>>

\* a reconciliation of a Database or User that was removed from the API
\* server after it was dispatched: Apply and Cleanup load the object anew
ReconcileGone(id, f, pw) ==
    /\ id[1] \in {"User", "Database"}
    /\ FinalizerEvent(objs[id]) \in {"Apply", "Cleanup"}
    /\ Run(id, f, pw, TRUE)
    /\ UNCHANGED <<pc, lock>>

\* The connection of a registered client ends with an error: the task that
\* drives the connection panics.  Where the build unwinds, the runtime ends
\* that task only and the process goes on with a client whose statements all
\* fail; where the build aborts on panic, the process ends.  The clients are
\* built once, so a lost connection stays lost.
ConnectionLost(sv) ==
    /\ alive # {}
    /\ Cardinality(PostgresqlClients \ connected) < MaxLost
    /\ sv \in connected
    /\ connected' = connected \ {sv}
    /\ alive' \in {alive, {}}
    /\ last' = NoRun
    /\ UNCHANGED <<objs, secrets, roles, dbs, buckets, keys, grants, failures,
                   last_event, group, probe,
                   pc, lock>>

\* the positions at which a call of this reconciliation can fail: one per
\* call the reconciliation makes when none fails
FailPositions(id, pw) ==
    IF objs[id].present
    THEN {f \in FailAt : f <= Len(reconcile(objs[id], id, World, 0, pw).calls)}
    ELSE {}

\* the same for an object that is gone when it is loaded
FailPositionsGone(id, pw) ==
    IF objs[id].present
    THEN {f \in FailAt :
             f <= Len(reconcile(objs[id], id, Dispatched(World, id, TRUE),
                                0, pw).calls)}
    ELSE {}

Init ==
    /\ objs = [id \in ResIds |-> Absent]
    /\ secrets = [n \in SecretNames |-> NoSecret]
    /\ roles = [sv \in PostgresqlClients |-> {}]
    /\ dbs = [sv \in PostgresqlClients |-> {}]
    /\ buckets = [issued |-> 0, live |-> {}]
    /\ keys = [issued |-> 0, live |-> {}]
    /\ grants = {}
    /\ failures = 0
    /\ last_event = StartupTime
    /\ alive = Kinds
    /\ connected = PostgresqlClients
    /\ last = NoRun
    /\ group \in Groups
    /\ probe = <<>>
    /\ pc = [t \in Tasks |-> "idle"]
    /\ lock = Unlocked

Next ==
    \/ \E id \in ResIds : \E spec \in SpecsOf(id) :
            \E foreign \in ForeignFinalizers(id) : Submit(id, spec, foreign)
    \/ \E id \in ResIds : ForeignRelease(id)
    \/ \E id \in ResIds : RequestDelete(id)
    \/ \E n \in SecretNames : GarbageCollect(n)
    \/ \E id \in ResIds : \E pw \in PasswordsFor(id) :
            \E f \in FailPositions(id, pw) : Reconcile(id, f, pw)

Spec == Init /\ [][Next]_vars

\* ------------------------------------------------------------------------
\* The controller where no call fails in transit and every object is
\* reconciled again and again: after an error the error policy requeues the
\* object, after a success Apply does (RequeueSecs), and a change of the
\* object triggers a reconciliation, so a reconciliation of an object that
\* stays in the API server cannot be put off for ever.
\* ------------------------------------------------------------------------
FairReconcile(id, pw) ==
    /\ RunWith(id, 0, pw, FALSE, TRUE)
    /\ UNCHANGED <<pc, lock>>

FairNext ==
    \/ \E id \in ResIds : \E spec \in SpecsOf(id) :
            \E foreign \in ForeignFinalizers(id) : Submit(id, spec, foreign)
    \/ \E id \in ResIds : ForeignRelease(id)
    \/ \E id \in ResIds : RequestDelete(id)
    \/ \E n \in SecretNames : GarbageCollect(n)
    \/ \E id \in ResIds : \E pw \in PasswordsFor(id) : FairReconcile(id, pw)

FairSpec ==
    /\ Init
    /\ [][FairNext]_vars
    /\ \A id \in ResIds :
          WF_vars(\E pw \in PasswordsFor(id) : FairReconcile(id, pw))

\* ------------------------------------------------------------------------
\* The SQL kinds with connections that can be lost. To a reconciliation a
\* lost connection is a statement that fails, which Spec has at every
\* position of every reconciliation; what is new here is that the loss
\* lasts, and what the panic of the connection task does to the process.
\* ------------------------------------------------------------------------
LossInit ==
    /\ Init
    /\ group \subseteq UserIds \cup DatabaseIds

LossNext ==
    \/ \E id \in ResIds : \E spec \in SpecsOf(id) :
            \E foreign \in ForeignFinalizers(id) : Submit(id, spec, foreign)
    \/ \E id \in ResIds : RequestDelete(id)
    \/ \E id \in ResIds : \E pw \in PasswordsFor(id) :
            \E f \in FailPositions(id, pw) : Reconcile(id, f, pw)
    \/ \E sv \in PostgresqlClients : ConnectionLost(sv)

LossSpec == LossInit /\ [][LossNext]_vars

\* ------------------------------------------------------------------------
\* The SQL kinds with objects that can be gone when they are loaded
\* ------------------------------------------------------------------------
GoneInit ==
    /\ Init
    /\ group \subseteq UserIds \cup DatabaseIds

GoneNext ==
    \/ \E id \in ResIds : \E spec \in SpecsOf(id) :
            \E foreign \in ForeignFinalizers(id) : Submit(id, spec, foreign)
    \/ \E id \in ResIds : RequestDelete(id)
    \/ \E id \in ResIds : \E pw \in PasswordsFor(id) :
            \E f \in FailPositions(id, pw) : Reconcile(id, f, pw)
    \/ \E id \in ResIds : \E pw \in PasswordsFor(id) :
            \E f \in FailPositionsGone(id, pw) : ReconcileGone(id, f, pw)

GoneSpec == GoneInit /\ [][GoneNext]_vars

\* ------------------------------------------------------------------------
\* The lock of the diagnostics record (state.rs), step by step: the driver's
\* reconcile takes the write lock for one statement before it calls
\* finalizer(); the endpoint takes the read lock to clone the record.
\* tokio's RwLock serves its waiters in the order they came.
\* ------------------------------------------------------------------------
\* a write guard excludes every holder, a read guard excludes a writer
Grantable(l, t) ==
    IF t \in ResIds THEN l.writer = {} /\ l.readers = {}
    ELSE l.writer = {}

Acquired(l, t) ==
    IF t \in ResIds THEN [l EXCEPT !.writer = @ \cup {t}, !.queue = Tail(@)]
    ELSE [l EXCEPT !.readers = @ \cup {t}, !.queue = Tail(@)]

\* the guard is dropped
Released(l, t) ==
    [l EXCEPT !.writer = @ \ {t}, !.readers = @ \ {t}]

\* variant: the guard is bound to a local of reconcile and lives as long
write_guard_outlives_statement(id) == TRUE

\* ctx.diagnostics.write().await.last_event = Utc::now(): the guard is a
\* temporary of the statement; does it outlive the statement?
write_guard_held_after(id) == FALSE

\* the runtime dispatches a reconciliation of the object: write().await
Dispatch(id) ==
    /\ id[1] \in alive
    /\ objs[id].present
    /\ pc[id] = "idle"
    /\ pc' = [pc EXCEPT ![id] = "waiting"]
    /\ lock' = [lock EXCEPT !.queue = Append(@, id)]
    /\ last' = NoRun
    /\ UNCHANGED <<objs, secrets, roles, dbs, buckets, keys, grants, failures,
                   last_event, alive, connected, group, probe>>

\* a request reaches the endpoint: State::diagnostics, read().await
Request(r) ==
    /\ pc[r] = "idle"
    /\ pc' = [pc EXCEPT ![r] = "waiting"]
    /\ lock' = [lock EXCEPT !.queue = Append(@, r)]
    /\ last' = NoRun
    /\ UNCHANGED <<objs, secrets, roles, dbs, buckets, keys, grants, failures,
                   last_event, alive, connected, group, probe>>

\* the lock hands its guard to the first waiter
Grant(t) ==
    /\ lock.queue # <<>>
    /\ t = Head(lock.queue)
    /\ Grantable(lock, t)
    /\ lock' = Acquired(lock, t)
    /\ pc' = [pc EXCEPT ![t] = "holding"]
    /\ last' = NoRun
    /\ UNCHANGED <<objs, secrets, roles, dbs, buckets, keys, grants, failures,
                   last_event, alive, connected, group, probe>>

\* .last_event = Utc::now(); and the end of the statement
WriteLastEvent(id) ==
    /\ id \in ResIds
    /\ pc[id] = "holding"
    /\ last_event' = ReconcileTime
    /\ lock' = IF write_guard_held_after(id) THEN lock ELSE Released(lock, id)
    /\ pc' = [pc EXCEPT ![id] = "working"]
    /\ last' = NoRun
    /\ UNCHANGED <<objs, secrets, roles, dbs, buckets, keys, grants, failures,
                   alive, connected, group, probe>>

\* finalizer(..).await with its Apply or Cleanup, and the return of
\* reconcile, which drops what the function still holds. An object that
\* left the API server meanwhile: the outcome is that of GoneSpec, not
\* followed here
Finalize(id, f, pw) ==
    /\ id \in ResIds
    /\ pc[id] = "working"
    /\ IF objs[id].present
       THEN Run(id, f, pw, FALSE)
       ELSE /\ f = 0
            /\ last' = NoRun
            /\ UNCHANGED <<objs, secrets, roles, dbs, buckets, keys, grants,
                           failures, last_event, alive, connected, group,
                           probe>>
    /\ lock' = Released(lock, id)
    /\ pc' = [pc EXCEPT ![id] = "idle"]

\* .clone() of the record, and the end of the statement
ReadDiagnostics(r) ==
    /\ r \in Readers
    /\ pc[r] = "holding"
    /\ lock' = Released(lock, r)
    /\ pc' = [pc EXCEPT ![r] = "idle"]
    /\ last' = NoRun
    /\ UNCHANGED <<objs, secrets, roles, dbs, buckets, keys, grants, failures,
                   last_event, alive, connected, group, probe>>

\* no call fails in transit here: what a failed call does to a
\* reconciliation is in Spec, and the lock is taken and dropped before the
\* first call is made
FinalizePositions(id, pw) == {0}

LockInit ==
    /\ Init
    /\ group = GroupOf(<<"Token", "app">>)

LockNext ==
    \/ \E id \in ResIds : \E spec \in SpecsOf(id) :
            \E foreign \in ForeignFinalizers(id) : Submit(id, spec, foreign)
    \/ \E id \in ResIds : RequestDelete(id)
    \/ \E id \in ResIds : Dispatch(id)
    \/ \E r \in Readers : Request(r)
    \/ \E t \in Tasks : Grant(t)
    \/ \E id \in ResIds : WriteLastEvent(id)
    \/ \E id \in ResIds : \E pw \in PasswordsFor(id) :
            \E f \in FinalizePositions(id, pw) : Finalize(id, f, pw)
    \/ \E r \in Readers : ReadDiagnostics(r)

LockSpec == LockInit /\ [][LockNext]_vars

\* ------------------------------------------------------------------------
\* Database::name on its own: the names of two objects are resolved
\* ------------------------------------------------------------------------
\* the characters of an RFC 1123 label, which is what the API server admits
\* as the name of a namespace and in the name of an object: letters and
\* digits (two stand for all) and the hyphen
Alnum == {"a", "b"}

LabelChars == Alnum \cup {"-"}

RECURSIVE Strings(_)
\* the strings of n characters
Strings(n) ==
    IF n = 0 THEN {""}
    ELSE {str \o ch : str \in Strings(n - 1), ch \in LabelChars}

\* labels of n characters: they begin and end with a letter or digit
LabelsOfLen(n) ==
    IF n = 1 THEN Alnum
    ELSE {first \o mid \o end :
             first \in Alnum, mid \in Strings(n - 2), end \in Alnum}

Labels == UNION {LabelsOfLen(n) : n \in 1..MaxLabelLen}

NameInit ==
    /\ objs = [id \in ResIds |-> Absent]
    /\ secrets = [n \in SecretNames |-> NoSecret]
    /\ roles = [sv \in PostgresqlClients |-> {}]
    /\ dbs = [sv \in PostgresqlClients |-> {}]
    /\ buckets = [issued |-> 0, live |-> {}]
    /\ keys = [issued |-> 0, live |-> {}]
    /\ grants = {}
    /\ failures = 0
    /\ last_event = StartupTime
    /\ alive = Kinds
    /\ connected = PostgresqlClients
    /\ last = NoRun
    /\ group = GroupOf(<<"Database", "app">>)
    /\ probe \in [ns1 : Labels, n1 : Labels, ns2 : Labels, n2 : Labels,
                   out : {<<>>}]
    /\ pc = [t \in Tasks |-> "idle"]
    /\ lock = Unlocked

\* name() is called on both objects
ResolveNames ==
    /\ probe.out = <<>>
    /\ probe' = [probe EXCEPT !.out = <<format(probe.ns1, probe.n1),
                                         format(probe.ns2, probe.n2)>>]
    /\ UNCHANGED <<objs, secrets, roles, dbs, buckets, keys, grants, failures,
                   last_event, alive, connected, last, group, pc, lock>>

NameNext == ResolveNames

NameSpec == NameInit /\ [][NameNext]_vars

\* ------------------------------------------------------------------------
\* Observations on the reconciliation that just ended
\* ------------------------------------------------------------------------
CallIdx(run) == 1..Len(run.calls)

IsAdapterCall(c) == c.sys \in {"sql", "garage"}

IsSqlCall(c) == c.sys = "sql"

IsCreateCall(c) ==
    \/ c.sys = "sql" /\ c.arg.stmt.verb \in {"CREATE USER", "CREATE DATABASE"}
    \/ c.sys = "garage" /\ c.op = "CreateBucket"

IsDeleteCall(c) ==
    \/ c.sys = "sql" /\ c.arg.stmt.verb \in {"DROP USER", "DROP DATABASE"}
    \/ c.sys = "garage" /\ c.op \in {"DeleteBucket", "DeleteKey"}

DeleteCalls(run) == {i \in CallIdx(run) : IsDeleteCall(run.calls[i])}

AllCallsOk(run) == \A i \in CallIdx(run) : run.calls[i].ok

\* Cleanup itself returned Ok: the driver succeeded, or failed only in the
\* removal of the marker that follows Cleanup
CleanupReturnedOk(run) ==
    \/ run.out.tag = "ok"
    \/ run.out.tag = "err" /\ run.out.err.stage = "RemoveFinalizer"

OwnerOf(d) == <<"User", objs[d].spec.owner_ref>>

\* ------------------------------------------------------------------------
\* C1: Apply on an object whose status.created is true makes no call at all
\* (no SQL or storage call, no secret creation, no status patch, no event)
\* and returns "requeue after 300 seconds", for each of the four kinds.
\* ------------------------------------------------------------------------
C1_CreatedApplyIsNoOp ==
    (last.event = "Apply" /\ last.created) =>
        /\ last.calls = <<>>
        /\ last.out.tag = "ok"
        /\ last.action.requeue_after = <<300>>

C1_Witness ==
    /\ last.event = "Apply"
    /\ last.created
    /\ last.id[1] = "Database"
    /\ Created(objs[<<"User", "app">>])

\* ------------------------------------------------------------------------
\* C2 as stated: Apply on a Database whose owner User names another server
\* always fails with PostgresqlUserAndDatabaseServerNotMatching and issues
\* no SQL statement.
\* ------------------------------------------------------------------------
C2_MismatchCase ==
    /\ last.event = "Apply"
    /\ last.id \in DatabaseIds
    /\ objs[OwnerOf(last.id)].present
    /\ objs[OwnerOf(last.id)].spec.server # objs[last.id].spec.server

C2_Original ==
    C2_MismatchCase =>
        /\ last.out.err.kind = "PostgresqlUserAndDatabaseServerNotMatching"
        /\ \A i \in CallIdx(last) : ~IsSqlCall(last.calls[i])

\* C2 amended: in that case Apply never issues an SQL statement, and it fails
\* with the mismatch error when the steps before the comparison pass (the
\* Database is not created yet, is not named "illegal", names a registered
\* server, the User carries a status and no call failed).
C2_MismatchNeverReachesSql ==
    C2_MismatchCase =>
        /\ \A i \in CallIdx(last) : ~IsSqlCall(last.calls[i])
        /\ ( /\ ~last.created
             /\ last.id[2] # "illegal"
             /\ objs[last.id].spec.server \in PostgresqlClients
             /\ objs[OwnerOf(last.id)].status # <<>>
             /\ AllCallsOk(last) )
           => /\ last.out.tag = "err"
              /\ last.out.err.kind = "PostgresqlUserAndDatabaseServerNotMatching"
              /\ last.out.err.stage = "ApplyFailed"

C2_Witness ==
    /\ C2_MismatchCase
    /\ last.out.err.kind = "PostgresqlUserAndDatabaseServerNotMatching"

SameSecret(a, b) ==
    /\ b.present
    /\ b.data = a.data
    /\ b.owner = a.owner
    /\ b.immutable = a.immutable

C4_SecretsCreateOnly ==
    [][last'.id \in ResIds =>
         /\ \A i \in CallIdx(last') :
               last'.calls[i].sys = "secret" => last'.calls[i].op = "create"
         /\ \A n \in SecretNames :
               /\ secrets'[n].present => secrets'[n].immutable
               /\ secrets[n].present =>
                     /\ SameSecret(secrets[n], secrets'[n])
                     /\ \A i \in CallIdx(last') :
                           (last'.calls[i].sys = "secret"
                               /\ last'.calls[i].arg.name = n) =>
                               /\ ~last'.calls[i].ok
                               /\ i = Len(last'.calls)
                               /\ last'.out.tag = "err"
                               /\ last'.out.err.kind = "KubeError"
                               /\ last'.out.err.stage = "ApplyFailed"
                               /\ last'.f # i => last'.out.err.detail = "Conflict"]_vars

C4_Witness ==
    /\ last.event = "Apply"
    /\ last.out.err.detail = "Conflict"
    /\ \E i \in CallIdx(last) : last.calls[i].sys = "secret" /\ ~last.calls[i].ok

\* ------------------------------------------------------------------------
\* C5 as stated: one Cleanup issues exactly one adapter delete call and
\* returns the terminal outcome exactly when that call succeeded.
\* ------------------------------------------------------------------------
C5_Original ==
    last.event = "Cleanup" =>
        /\ Cardinality(DeleteCalls(last)) = 1
        /\ CleanupReturnedOk(last) <=>
              \A i \in DeleteCalls(last) : last.calls[i].ok

\* C5 amended: one Cleanup issues at most one adapter delete call, and none
\* only when it failed before the call (the "delete requested" event or the
\* reload of the object failed, or spec.server is not registered). Cleanup
\* returns the terminal outcome only if it issued the delete call and the
\* call succeeded; a failed delete call makes Cleanup return an error.
C5_CleanupDeletesOnce ==
    last.event = "Cleanup" =>
        /\ Cardinality(DeleteCalls(last)) <= 1
        /\ CleanupReturnedOk(last) =>
              /\ Cardinality(DeleteCalls(last)) = 1
              /\ \A i \in DeleteCalls(last) : last.calls[i].ok
        /\ last.out.tag = "ok" => last.action.requeue_after = <<>>
        /\ (\E i \in DeleteCalls(last) : ~last.calls[i].ok) =>
              /\ last.out.tag = "err"
              /\ last.out.err.stage = "CleanupFailed"
        /\ DeleteCalls(last) = {} =>
              /\ last.out.tag = "err"
              /\ last.out.err.stage = "CleanupFailed"
              /\ last.out.err.kind \in {"KubeError", "PostgresqlUnknownServer"}

C5_Witness ==
    /\ last.event = "Cleanup"
    /\ last.out.tag = "ok"
    /\ \E i \in DeleteCalls(last) : last.calls[i].ok

\* ------------------------------------------------------------------------
\* C6 as stated: Cleanup is never invoked for an instance unless Apply was
\* invoked for it before.
\* ------------------------------------------------------------------------
C6_Original == last.event = "Cleanup" => last.applied

\* C6 amended: Cleanup is invoked only for an instance that carries the
\* finalizer marker and whose deletion was requested, and once deletion was
\* requested Apply is never invoked for the instance again (so Cleanup never
\* precedes an Apply); Apply need not have run before Cleanup.
C6_NoApplyOnceDeleting ==
    [][last'.id \in ResIds =>
         /\ last'.event = "Cleanup" =>
               /\ FINALIZER \in objs[last'.id].finalizers
               /\ objs[last'.id].deleting
         /\ last'.event = "Apply" => FINALIZER \in objs[last'.id].finalizers
         /\ objs[last'.id].deleting =>
               /\ last'.event # "Apply"
               /\ \A i \in CallIdx(last') :
                     /\ ~IsCreateCall(last'.calls[i])
                     /\ last'.calls[i].sys = "recorder" =>
                           last'.calls[i].arg.reason = "DeleteRequested"]_vars

C6_Witness ==
    /\ last.event = "Cleanup"
    /\ last.applied
    /\ last.out.tag = "ok"

\* ------------------------------------------------------------------------
\* C7: the finalizer marker is removed only in a reconciliation in which
\* Cleanup returned success; when Cleanup returns an error the marker stays,
\* the object stays, and the retry runs Cleanup again.
\* ------------------------------------------------------------------------
C7_MarkerOnlyAfterCleanup ==
    [][\A id \in ResIds :
         /\ (FINALIZER \in objs[id].finalizers
               /\ (~objs'[id].present \/ FINALIZER \notin objs'[id].finalizers)) =>
               /\ last'.id = id
               /\ last'.event = "Cleanup"
               /\ last'.out.tag = "ok"
               /\ \E i \in DeleteCalls(last') : last'.calls[i].ok
         /\ (last'.id = id /\ last'.event = "Cleanup"
               /\ last'.out.tag = "err" /\ last'.out.err.stage = "CleanupFailed") =>
               /\ objs'[id].present
               /\ FINALIZER \in objs'[id].finalizers
               /\ objs'[id].deleting
               /\ FinalizerEvent(objs'[id]) = "Cleanup"
               /\ last'.action.requeue_after = <<300>>]_vars

C7_Witness ==
    /\ last.event = "Cleanup"
    /\ last.out.tag = "err"
    /\ last.out.err.stage = "CleanupFailed"
    /\ objs[last.id].present
    /\ last.applied

\* ------------------------------------------------------------------------
\* C8: a Database gets status.created = true only in an Apply in which the
\* lookup of the owning User and then the CREATE DATABASE call succeeded,
\* both before the status patch.
\* ------------------------------------------------------------------------
C8_CreatedOnlyAfterLookupAndDdl ==
    [][\A d \in DatabaseIds :
         (~Created(objs[d]) /\ Created(objs'[d])) =>
            /\ last'.id = d
            /\ last'.event = "Apply"
            /\ \E i, j, k \in CallIdx(last') :
                  /\ i < j /\ j < k
                  /\ last'.calls[i].sys = "kube" /\ last'.calls[i].op = "get"
                  /\ last'.calls[i].arg = OwnerOf(d) /\ last'.calls[i].ok
                  /\ IsSqlCall(last'.calls[j])
                  /\ last'.calls[j].arg.stmt.verb = "CREATE DATABASE"
                  /\ last'.calls[j].arg.stmt.name = objs'[d].status[1].name
                  /\ last'.calls[j].ok
                  /\ last'.calls[k].sys = "kube"
                  /\ last'.calls[k].op = "patch_status"
                  /\ last'.calls[k].ok]_vars

C8_Witness ==
    /\ last.id \in DatabaseIds
    /\ last.event = "Apply"
    /\ ~last.created
    /\ Created(objs[last.id])

\* ------------------------------------------------------------------------
\* C9: the lifecycle only moves forward: status.created never goes back to
\* false, a created object is never applied again (no create call is issued
\* for it), and it leaves Created only through the Cleanup of a deletion:
\* the object goes with the successful Cleanup, or, where another
\* controller's finalizer held it, after that Cleanup took the marker off.
\* ------------------------------------------------------------------------
C9_LifecycleForward ==
    [][\A id \in ResIds :
         Created(objs[id]) =>
            /\ objs'[id].present =>
                  /\ Created(objs'[id])
                  /\ objs'[id].status = objs[id].status
            /\ last'.id = id =>
                  /\ \A i \in CallIdx(last') : ~IsCreateCall(last'.calls[i])
                  /\ last'.event = "Apply" => last'.calls = <<>>
            /\ ~objs'[id].present =>
                  /\ objs[id].deleting
                  /\ \/ /\ last'.id = id
                        /\ last'.event = "Cleanup"
                        /\ last'.out.tag = "ok"
                     \/ /\ last'.id \notin ResIds
                        /\ FINALIZER \notin objs[id].finalizers]_vars

C9_Witness ==
    /\ last.event = "Cleanup"
    /\ last.created
    /\ last.out.tag = "ok"
    /\ ~objs[last.id].present

\* ------------------------------------------------------------------------
\* C10: every error of Apply, Cleanup or the finalizer bookkeeping reaches
\* the error policy, which increments the failure counter once, for the
\* (kind, instance, error) of the failure, and schedules the retry after
\* exactly 300 seconds; no failed call ends in a success outcome, and
\* nothing but an error touches the counter.
\* ------------------------------------------------------------------------
C10_ErrorsCountedAndRetried ==
    [][/\ last'.id \notin ResIds => failures' = failures
       /\ last'.id \in ResIds =>
            /\ (\E i \in CallIdx(last') : ~last'.calls[i].ok) => last'.out.tag = "err"
            /\ last'.out.tag = "err" =>
                  /\ failures' = failures + 1
                  /\ Len(last'.counted) = 1
                  /\ last'.counted[1].api_kind = last'.id[1]
                  /\ last'.counted[1].instance = last'.id[2]
                  /\ last'.counted[1].error[1] = "finalizererror"
                  /\ last'.counted[1].error[2] = to_lowercase(last'.out.err.stage)
                  /\ last'.counted[1].error[3] = to_lowercase(last'.out.err.kind)
                  /\ last'.out.err.stage \in
                        {"ApplyFailed", "CleanupFailed", "AddFinalizer", "RemoveFinalizer"}
                  /\ last'.action.requeue_after = <<300>>
            /\ last'.out.tag # "err" =>
                  /\ failures' = failures
                  /\ last'.counted = <<>>]_vars

C10_Witness ==
    /\ last.out.tag = "err"
    /\ failures = 2
    /\ last.action.requeue_after = <<300>>
    /\ last.event = "Cleanup"

\* ------------------------------------------------------------------------
\* C11: whenever a reconciliation ends in an error, a "failed" event is
\* emitted for the object, by the reconciliation or by the error policy.
\* The error policy of every kind only logs, counts and requeues, and no
\* event the reconcilers publish tells of a failure.
\* ------------------------------------------------------------------------
EventReasons(run) ==
    {run.calls[i].arg.reason :
        i \in {j \in CallIdx(run) : run.calls[j].sys = "recorder"}}
        \cup {run.published[i].reason : i \in 1..Len(run.published)}

C11_FailedEventOnError ==
    last.out.tag = "err" =>
        EventReasons(last) \ {"CreationRequested", "CreationCompleted",
                              "DeleteRequested"} # {}

\* ------------------------------------------------------------------------
\* C12 as stated: Apply on a Database whose owner User does not exist fails
\* with NotFound, issues no SQL statement, leaves status.created false, and
\* the Database is reconciled again after 300 seconds.
\* ------------------------------------------------------------------------
C12_OwnerMissingCase ==
    /\ last.event = "Apply"
    /\ last.id \in DatabaseIds
    /\ ~objs[OwnerOf(last.id)].present

C12_Original ==
    C12_OwnerMissingCase =>
        /\ last.out.tag = "err"
        /\ last.out.err.detail = "NotFound"
        /\ \A i \in CallIdx(last) : ~IsSqlCall(last.calls[i])
        /\ ~Created(objs[last.id])
        /\ last.action.requeue_after = <<300>>

\* C12 amended: in that case Apply issues no SQL statement and leaves the
\* status as it was; on a Database not yet created it fails and the Database
\* is reconciled again after 300 seconds. The error is the NotFound of the
\* owner lookup when the steps before the lookup pass (the name is not
\* "illegal", spec.server is registered, no call fails on its own);
\* otherwise it is the error of the earlier step.
C12_OwnerMissingFails ==
    C12_OwnerMissingCase =>
        /\ \A i \in CallIdx(last) : ~IsSqlCall(last.calls[i])
        /\ Created(objs[last.id]) = last.created
        /\ ~last.created =>
              /\ last.out.tag = "err"
              /\ last.out.err.stage = "ApplyFailed"
              /\ last.action.requeue_after = <<300>>
        /\ ( /\ ~last.created
             /\ last.f = 0
             /\ last.id[2] # "illegal"
             /\ objs[last.id].spec.server \in PostgresqlClients )
           => /\ last.out.err.kind = "KubeError"
              /\ last.out.err.detail = "NotFound"
              /\ last.calls[Len(last.calls)] =
                    Call("kube", "get", OwnerOf(last.id), FALSE)

C12_Witness ==
    /\ C12_OwnerMissingCase
    /\ last.out.err.detail = "NotFound"
    /\ last.action.requeue_after = <<300>>

\* ------------------------------------------------------------------------
\* C13: a successful Apply on a User not yet created issues, in this order,
\* one CREATE USER on the backend spec.server names, with a generated
\* password of 16 alphanumeric characters and spec.connection_limit; the
\* create of the secret spec.password_secret_name names, whose password is
\* the one in the statement and whose username is the resolved name; and the
\* status patch with created = true. No User Apply sends the status patch
\* unless both earlier calls succeeded.
\* ------------------------------------------------------------------------
SqlCalls(run) == {i \in CallIdx(run) : IsSqlCall(run.calls[i])}

SecretCalls(run) == {i \in CallIdx(run) : run.calls[i].sys = "secret"}

PatchCalls(run) ==
    {i \in CallIdx(run) :
        run.calls[i].sys = "kube" /\ run.calls[i].op = "patch_status"}

C13_UserApplyOrder ==
    (last.event = "Apply" /\ last.id \in UserIds /\ ~last.created) =>
        /\ Cardinality(SqlCalls(last)) <= 1
        /\ Cardinality(SecretCalls(last)) <= 1
        /\ Cardinality(PatchCalls(last)) <= 1
        /\ \A k \in PatchCalls(last) :
              \E i \in SqlCalls(last) : \E j \in SecretCalls(last) :
                 /\ i < j /\ j < k
                 /\ last.calls[i].ok /\ last.calls[j].ok
        /\ last.out.tag = "ok" =>
              \E i \in SqlCalls(last) : \E j \in SecretCalls(last) :
              \E k \in PatchCalls(last) :
                 LET spec == objs[last.id].spec
                     sql == last.calls[i].arg
                     sec == last.calls[j].arg
                 IN  /\ i < j /\ j < k
                     /\ last.calls[i].ok /\ last.calls[j].ok /\ last.calls[k].ok
                     /\ sql.server = spec.server
                     /\ sql.stmt.verb = "CREATE USER"
                     /\ sql.stmt.name = name(last.id)
                     /\ sql.stmt.password.len = 16
                     /\ sql.stmt.password.chars = "alnum"
                     /\ sql.stmt.connection_limit = spec.connection_limit
                     /\ sec.name = spec.password_secret_name
                     /\ sec.secret.data.password = sql.stmt.password
                     /\ sec.secret.data.username = name(last.id)
                     /\ last.calls[k].arg.id = last.id
                     /\ last.calls[k].arg.status.created
                     /\ Created(objs[last.id])

C13_Witness ==
    /\ last.event = "Apply"
    /\ last.id \in UserIds
    /\ ~last.created
    /\ last.out.tag = "ok"
    /\ Created(objs[last.id])
    /\ secrets[objs[last.id].spec.password_secret_name].present

\* ------------------------------------------------------------------------
\* C14: the secret a User Apply creates carries an owner reference to that
\* User, and no such secret outlives its User: while the secret exists, the
\* User it was created for exists (or the secret is about to be collected).
\* ------------------------------------------------------------------------
UserSecrets ==
    {n \in SecretNames :
        secrets[n].present /\ "username" \in DOMAIN secrets[n].data}

C14_UserSecretOwned ==
    \A n \in UserSecrets :
        /\ secrets[n].owner # <<>>
        /\ \E u \in UserIds :
              /\ secrets[n].owner = <<u>>
              /\ name(u) = secrets[n].data.username
              /\ objs[u].present \/ secrets[n].dangling

\* ------------------------------------------------------------------------
\* C15: a successful Apply on a Bucket stores in status the id the storage
\* assigned in the create-bucket call of that Apply, with created = true,
\* and every Cleanup of a created Bucket calls delete-bucket with the id in
\* its status.
\* ------------------------------------------------------------------------
C15_BucketIdKept ==
    [][\A b \in BucketIds :
         /\ (~Created(objs[b]) /\ Created(objs'[b])) =>
               /\ last'.id = b
               /\ last'.event = "Apply"
               /\ last'.out.tag = "ok"
               /\ \E i \in CallIdx(last') :
                     /\ last'.calls[i].sys = "garage"
                     /\ last'.calls[i].op = "CreateBucket"
                     /\ last'.calls[i].arg.global_alias = objs[b].spec.name
                     /\ last'.calls[i].ok
               /\ Cardinality(buckets'.live \ buckets.live) = 1
               /\ \A made \in buckets'.live \ buckets.live :
                     /\ made.alias = objs[b].spec.name
                     /\ objs'[b].status[1].id = made.id
         /\ (Created(objs[b]) /\ last'.id = b /\ last'.event = "Cleanup") =>
               \A i \in CallIdx(last') :
                  last'.calls[i].sys = "garage" =>
                     /\ last'.calls[i].op = "DeleteBucket"
                     /\ last'.calls[i].arg.id = objs[b].status[1].id
                     /\ objs[b].status[1].id \in
                           {BucketIdPool[n] : n \in 1..Len(BucketIdPool)}]_vars

C15_Witness ==
    /\ last.event = "Cleanup"
    /\ last.id \in BucketIds
    /\ last.created
    /\ \E i \in CallIdx(last) :
          /\ last.calls[i].sys = "garage"
          /\ last.calls[i].arg.id = "abc"
          /\ last.calls[i].ok

\* ------------------------------------------------------------------------
\* C16: a successful Apply on a Token not yet created performs, in this
\* order: create-key; the create of the secret holding the access key id
\* and the secret access key the storage returned; the lookup of the Bucket
\* spec.bucketRef names; AllowBucketKey with the (read, write, owner) of the
\* spec; DenyBucketKey with the same three flags; the status patch with
\* created = true and the key id.
\* ------------------------------------------------------------------------
Triple(self) ==
    [read |-> self.spec.reader, write |-> self.spec.writer,
     owner |-> self.spec.owner]

C16_TokenApplyOrder ==
    [][\A t \in TokenIds :
         (last'.id = t /\ last'.event = "Apply" /\ ~last'.created
             /\ last'.out.tag = "ok") =>
            /\ Cardinality(keys'.live \ keys.live) = 1
            /\ \A made \in keys'.live \ keys.live :
               /\ made.name = objs[t].spec.name
               /\ \E a \in CallIdx(last') :
                  /\ last'.calls[a] =
                        Call("garage", "CreateBucket",
                             [name |-> objs[t].spec.name,
                              allow |-> [createBucket |-> FALSE],
                              deny |-> [createBucket |-> TRUE],
                              neverExpires |-> TRUE], TRUE)
                  /\ \E b \in CallIdx(last') :
                     /\ a < b
                     /\ last'.calls[b].ok
                     /\ last'.calls[b].sys = "secret"
                     /\ last'.calls[b].arg.name = objs[t].spec.tokenSecretName
                     /\ last'.calls[b].arg.secret.data =
                           [accessKeyId |-> made.id,
                            secretAccessKey |-> "secret-" \o made.id]
                     /\ \E c \in CallIdx(last') :
                        /\ b < c
                        /\ last'.calls[c] =
                              Call("kube", "get",
                                   <<"Bucket", objs[t].spec.bucketRef>>, TRUE)
                        /\ \E d \in CallIdx(last') :
                           /\ c < d
                           /\ last'.calls[d] =
                                 Call("garage", "AllowBucketKey",
                                      [bucketId |->
                                          get_id(objs[<<"Bucket",
                                                        objs[t].spec.bucketRef>>]),
                                       accessKeyId |-> made.id,
                                       permissions |-> Triple(objs[t])], TRUE)
                           /\ \E e \in CallIdx(last') :
                              /\ d < e
                              /\ last'.calls[e] =
                                    Call("garage", "DenyBucketKey",
                                         last'.calls[d].arg, TRUE)
                              /\ \E g \in CallIdx(last') :
                                 /\ e < g
                                 /\ last'.calls[g] =
                                       Call("kube", "patch_status",
                                            [id |-> t,
                                             status |-> [created |-> TRUE,
                                                         id |-> made.id]], TRUE)
                                 /\ {i \in CallIdx(last') :
                                        last'.calls[i].sys # "recorder"}
                                       = {a, b, c, d, e, g}]_vars

C16_Witness ==
    /\ last.id \in TokenIds
    /\ last.event = "Apply"
    /\ ~last.created
    /\ last.out.tag = "ok"
    /\ objs[last.id].spec.writer
    /\ Created(objs[last.id])

\* ------------------------------------------------------------------------
\* C17: after a successful Apply on a Token, the permissions the storage
\* holds for the new key on the referenced bucket are the requested ones:
\* every flag the spec requests is granted and no other flag is.
\* ------------------------------------------------------------------------
Effective(bucket_id, key_id) ==
    {fl \in {"read", "write", "owner"} : <<bucket_id, key_id, fl>> \in grants}

C17_EffectivePermissions ==
    (last.id \in TokenIds /\ last.event = "Apply" /\ ~last.created
        /\ last.out.tag = "ok") =>
        Effective(get_id(objs[<<"Bucket", objs[last.id].spec.bucketRef>>]),
                  get_id(objs[last.id]))
            = Flags(Triple(objs[last.id]))

\* ------------------------------------------------------------------------
\* C18: Cleanup of a Token calls delete-key with the key id that create-key
\* returned in the Token's successful Apply and that status.id holds; it
\* never calls delete-key with an empty id or with the id of another key.
\* ------------------------------------------------------------------------
C18_DeleteKeyWithStoredId ==
    [][\A t \in TokenIds :
         (last'.id = t /\ last'.event = "Cleanup") =>
            \A i \in CallIdx(last') :
               last'.calls[i].sys = "garage" =>
                  /\ last'.calls[i].op = "DeleteKey"
                  /\ last'.calls[i].arg.id # ""
                  /\ Created(objs[t])
                  /\ last'.calls[i].arg.id = objs[t].status[1].id
                  /\ \E k \in keys.live :
                        k.id = last'.calls[i].arg.id /\ k.name = objs[t].spec.name]_vars

\* ------------------------------------------------------------------------
\* C19: when the connection to a registered SQL backend is lost, the whole
\* controller process terminates: from then on no reconciliation of any
\* resource of any kind is started.
\* ------------------------------------------------------------------------
C19_NoReconcileAfterConnectionLoss ==
    [][connected # PostgresqlClients => last'.id \notin ResIds]_vars

\* ------------------------------------------------------------------------
\* C20: no failure of a single reconciliation stops the control loop: after a
\* reconciliation, whatever its outcome, every controller loop that ran
\* before it still runs.  In particular the reconciliation of a Database
\* whose owner User exists but has no status yet does not stop any.
\* ------------------------------------------------------------------------
C20_ReconcileNeverStopsLoop ==
    [][last'.id \in ResIds => alive' = alive]_vars

\* ------------------------------------------------------------------------
\* C21 as stated: Apply and Cleanup of a Database or User whose spec.server
\* is not registered fail with PostgresqlUnknownServer, issue no SQL
\* statement and leave status and finalizer marker unchanged.
\* ------------------------------------------------------------------------
C21_UnknownServerCase ==
    /\ last'.id \in UserIds \cup DatabaseIds
    /\ last'.event \in {"Apply", "Cleanup"}
    /\ objs[last'.id].spec.server \notin PostgresqlClients

C21_Original ==
    [][C21_UnknownServerCase =>
          /\ last'.out.tag = "err"
          /\ last'.out.err.kind = "PostgresqlUnknownServer"
          /\ \A i \in CallIdx(last') : ~IsSqlCall(last'.calls[i])
          /\ objs'[last'.id].status = objs[last'.id].status
          /\ objs'[last'.id].finalizers = objs[last'.id].finalizers]_vars

\* C21 amended: in that case Apply and Cleanup issue no SQL statement and
\* leave status and finalizer marker unchanged; on an object not yet created
\* they fail, with PostgresqlUnknownServer when the steps before the lookup
\* pass (no call failed and, for Apply, the name is not "illegal"), and with
\* the error of the step that failed otherwise.
C21_UnknownServerNoSql ==
    [][C21_UnknownServerCase =>
          /\ \A i \in CallIdx(last') : ~IsSqlCall(last'.calls[i])
          /\ objs'[last'.id].status = objs[last'.id].status
          /\ objs'[last'.id].finalizers = objs[last'.id].finalizers
          /\ ~last'.created =>
                /\ last'.out.tag = "err"
                /\ last'.out.err.stage =
                      (IF last'.event = "Apply" THEN "ApplyFailed"
                       ELSE "CleanupFailed")
                /\ (AllCallsOk(last')
                      /\ (last'.event = "Cleanup" \/ ~is_illegal(last'.id[2])))
                   => last'.out.err.kind = "PostgresqlUnknownServer"
                /\ ~AllCallsOk(last') => last'.out.err.kind = "KubeError"
                /\ (AllCallsOk(last') /\ last'.event = "Apply"
                      /\ is_illegal(last'.id[2]))
                   => last'.out.err.kind \in
                         {"PostgresqlIllegalUser", "PostgresqlIllegalDatabase"}]_vars

C21_Witness ==
    /\ last.id \in UserIds \cup DatabaseIds
    /\ last.event = "Cleanup"
    /\ last.out.err.kind = "PostgresqlUnknownServer"
    /\ objs[last.id].present
    /\ FINALIZER \in objs[last.id].finalizers
    /\ objs[last.id].spec.server \notin PostgresqlClients

\* ------------------------------------------------------------------------
\* C22: if Apply on a resource failed because the dependency it refers to
\* (the owner User of a Database, the Bucket of a Token) did not exist, then
\* once the dependency exists and is created, a retry of Apply in which the
\* adapter calls with valid arguments succeed (no call fails in transit, the
\* backend is reachable and holds what the dependency's status says, the
\* storage can still issue a key) succeeds and sets status.created = true.
\* ------------------------------------------------------------------------
DependencyOf(x) ==
    IF x[1] = "Database" THEN <<"User", objs[x].spec.owner_ref>>
    ELSE <<"Bucket", objs[x].spec.bucketRef>>

AdaptersReady(x) ==
    IF x[1] = "Database"
    THEN /\ objs[x].spec.server \in connected
         /\ objs[DependencyOf(x)].spec.server = objs[x].spec.server
         /\ objs[DependencyOf(x)].status[1].name
               \in RoleNames(World, objs[x].spec.server)
         /\ name(x) \notin DbNames(World, objs[x].spec.server)
    ELSE /\ keys.issued < Len(KeyIdPool)
         /\ \E b \in buckets.live : b.id = get_id(objs[DependencyOf(x)])

C22_RetryCase(x) ==
    /\ last'.id = x
    /\ last'.event = "Apply"
    /\ last'.f = 0
    /\ objs[x].missed
    /\ ~Created(objs[x])
    /\ objs[DependencyOf(x)].present
    /\ Created(objs[DependencyOf(x)])
    /\ AdaptersReady(x)

C22_RetryAfterDependencySucceeds ==
    [][\A x \in DatabaseIds \cup TokenIds :
         C22_RetryCase(x) =>
            /\ last'.out.tag = "ok"
            /\ Created(objs'[x])]_vars

\* ------------------------------------------------------------------------
\* C23: the resolved database identifier is a function of (namespace, name)
\* and is injective: two Databases with different (namespace, name) pairs
\* get different resolved identifiers, equal pairs get equal ones.
\* ------------------------------------------------------------------------
C23_NameInjective ==
    (probe # <<>> /\ probe.out # <<>>) =>
        (probe.out[1] = probe.out[2])
           <=> (probe.ns1 = probe.ns2 /\ probe.n1 = probe.n2)

C23_Witness ==
    /\ probe # <<>>
    /\ probe.out # <<>>
    /\ probe.ns1 # probe.ns2
    /\ probe.ns1 \o probe.n1 = probe.ns2 \o probe.n2
    /\ probe.out[1] # probe.out[2]

\* ------------------------------------------------------------------------
\* C24: no reconciliation changes the spec of any resource. An Apply changes
\* nothing of its resource but the status, and only through a status patch
\* that succeeded and carries created = true and the resolved name or id;
\* it changes no other resource. A Cleanup makes no status patch, and the
\* only write to the resource in its reconciliation is the removal of the
\* marker by the finalizer protocol, after Cleanup's last call.
\* ------------------------------------------------------------------------
\* what the API server holds of an object (applied and missed are history)
Stored(obj) ==
    [present |-> obj.present, spec |-> obj.spec, finalizers |-> obj.finalizers,
     deleting |-> obj.deleting, status |-> obj.status]

IsResourceWrite(c) == c.sys = "kube" /\ c.op \in {"patch", "patch_status"}

ResolvedStatuses(id) ==
    IF id[1] \in {"User", "Database"}
    THEN {[created |-> TRUE, name |-> name(id)]}
    ELSE {[created |-> TRUE, id |-> i] :
             i \in {BucketIdPool[k] : k \in DOMAIN BucketIdPool}
                   \cup {KeyIdPool[k] : k \in DOMAIN KeyIdPool}}

C24_SpecNeverWritten ==
    [][last'.id \in ResIds =>
         /\ \A o \in ResIds :
               objs'[o].present => objs'[o].spec = objs[o].spec
         /\ \A o \in ResIds \ {last'.id} : Stored(objs'[o]) = Stored(objs[o])
         /\ last'.event = "Apply" =>
               /\ Stored(objs'[last'.id]) =
                     [Stored(objs[last'.id]) EXCEPT
                         !.status = objs'[last'.id].status]
               /\ objs'[last'.id].status # objs[last'.id].status =>
                     /\ objs'[last'.id].status[1] \in ResolvedStatuses(last'.id)
                     /\ last'.calls[Len(last'.calls)] =
                           Call("kube", "patch_status",
                                [id |-> last'.id,
                                 status |-> objs'[last'.id].status[1]], TRUE)
               /\ \A i \in CallIdx(last') :
                     IsResourceWrite(last'.calls[i]) =>
                        /\ i = Len(last'.calls)
                        /\ last'.calls[i].op = "patch_status"
         /\ last'.event = "Cleanup" =>
               /\ \A i \in CallIdx(last') :
                     IsResourceWrite(last'.calls[i]) =>
                        /\ i = Len(last'.calls)
                        /\ last'.calls[i].op = "patch"
                        /\ last'.calls[i].arg = [id |-> last'.id,
                                                 remove |-> FINALIZER]
               /\ objs'[last'.id].present =>
                     /\ Stored(objs'[last'.id]) =
                           [Stored(objs[last'.id]) EXCEPT
                               !.finalizers = objs'[last'.id].finalizers]
                     /\ objs'[last'.id].finalizers
                           \in {objs[last'.id].finalizers,
                                objs[last'.id].finalizers \ {FINALIZER}}]_vars

C24_Witness ==
    /\ last.id \in TokenIds
    /\ last.event = "Apply"
    /\ ~last.created
    /\ last.out.tag = "ok"
    /\ objs[last.id].status # <<>>
    /\ objs[last.id].spec.writer

\* ------------------------------------------------------------------------
\* C25: every invocation of a driver's reconcile writes the diagnostics'
\* last_event, whatever the outcome: after a reconciliation of any kind that
\* ended in Ok, in an error or in a panic, in any arm of the finalizer
\* protocol, last_event holds the time of a reconciliation.
\* ------------------------------------------------------------------------
C25_LastEventWritten ==
    [][last'.id \in ResIds => last_event' = ReconcileTime]_vars

C25_Witness ==
    /\ last.id \in ResIds
    /\ last.out.tag = "panic"
    /\ last_event = ReconcileTime

\* ------------------------------------------------------------------------
\* C26: every successful Apply, the no-op on a created resource included,
\* schedules the next check after exactly 300 seconds; every successful
\* Cleanup returns the terminal outcome with no further scheduling; no
\* reconciliation that succeeds schedules any other interval.
\* ------------------------------------------------------------------------
C26_SuccessIntervals ==
    (last.id \in ResIds /\ last.out.tag = "ok") =>
        /\ last.event = "Apply" => last.action = [requeue_after |-> <<300>>]
        /\ last.event = "Cleanup" => last.action = [requeue_after |-> <<>>]
        /\ last.action.requeue_after \in {<<>>, <<300>>}

C26_Witness ==
    /\ last.id \in UserIds
    /\ last.event = "Cleanup"
    /\ last.out.tag = "ok"
    /\ last.action = await_change
    /\ ~objs[last.id].present

\* ------------------------------------------------------------------------
\* C27: the finalizer protocol dispatches by (marker present, deletion
\* requested). Apply runs only on a resource that carries the marker and is
\* not being deleted, Cleanup only on one that carries it and is being
\* deleted; a resource without the marker that is not being deleted only
\* gets the marker added (one patch, no other call); one without the marker
\* that is being deleted triggers neither Apply nor Cleanup and no call.
\* ------------------------------------------------------------------------
HasMarker(obj) == FINALIZER \in obj.finalizers

C27_FinalizerDispatch ==
    [][last'.id \in ResIds =>
         /\ last'.event = "Apply"
               <=> (HasMarker(objs[last'.id]) /\ ~objs[last'.id].deleting)
         /\ last'.event = "Cleanup"
               <=> (HasMarker(objs[last'.id]) /\ objs[last'.id].deleting)
         /\ (~HasMarker(objs[last'.id]) /\ ~objs[last'.id].deleting) =>
               /\ last'.event = "AddFinalizer"
               /\ Len(last'.calls) = 1
               /\ last'.calls[1].sys = "kube"
               /\ last'.calls[1].op = "patch"
               /\ last'.calls[1].arg = [id |-> last'.id, add |-> FINALIZER]
               /\ Stored(objs'[last'.id]) =
                     [Stored(objs[last'.id]) EXCEPT
                         !.finalizers =
                            IF last'.calls[1].ok THEN @ \cup {FINALIZER}
                            ELSE @]
         /\ (~HasMarker(objs[last'.id]) /\ objs[last'.id].deleting) =>
               /\ last'.event = "Nothing"
               /\ last'.calls = <<>>
               /\ last'.out = Ok(await_change)
               /\ objs' = objs]_vars

C27_Witness ==
    /\ last.id \in ResIds
    /\ last.event = "Nothing"
    /\ objs[last.id].present
    /\ objs[last.id].deleting
    /\ objs[last.id].status # <<>>
    /\ objs[last.id].finalizers = {OTHER_FINALIZER}

\* ------------------------------------------------------------------------
\* C28 as stated: if an Apply failed after its create call succeeded and
\* before the status patch was applied, status.created stays false, the
\* external object is not rolled back, and the next Apply issues the create
\* call again for the external object that exists already.
\* ------------------------------------------------------------------------
\* the external object of a resource exists
ExternalExists(w, x) ==
    CASE x[1] = "User" ->
            /\ w.objs[x].spec.server \in PostgresqlClients
            /\ name(x) \in RoleNames(w, w.objs[x].spec.server)
      [] x[1] = "Database" ->
            /\ w.objs[x].spec.server \in PostgresqlClients
            /\ name(x) \in DbNames(w, w.objs[x].spec.server)
      [] x[1] = "Bucket" ->
            \E b \in w.buckets.live : b.alias = w.objs[x].spec.name
      [] x[1] = "Token" ->
            \E k \in w.keys.live : k.name = w.objs[x].spec.name

\* the create call of the resource is in the trace
CreateCallsFor(run, x, spec) ==
    {i \in CallIdx(run) :
        /\ IsCreateCall(run.calls[i])
        /\ CASE x[1] \in {"User", "Database"} ->
                   /\ run.calls[i].arg.server = spec.server
                   /\ run.calls[i].arg.stmt.name = name(x)
             [] x[1] = "Bucket" -> run.calls[i].arg = [global_alias |-> spec.name]
             [] x[1] = "Token" -> run.calls[i].arg.name = spec.name}

\* an Apply whose create call succeeded ended without the status patch
C28_NoRollback ==
    (/\ last'.id \in ResIds
     /\ last'.event = "Apply"
     /\ last'.out.tag # "ok"
     /\ \E i \in CreateCallsFor(last', last'.id, objs[last'.id].spec) :
           last'.calls[i].ok)
    => /\ ~Created(objs'[last'.id])
       /\ objs'[last'.id].status = objs[last'.id].status
       /\ ExternalExists([World EXCEPT !.objs = objs', !.roles = roles',
                                      !.dbs = dbs', !.buckets = buckets',
                                      !.keys = keys'], last'.id)
       /\ \A i \in CallIdx(last') : ~IsDeleteCall(last'.calls[i])

\* an Apply of a resource not yet created whose external object exists
C28_RetryCase ==
    /\ last'.id \in ResIds
    /\ last'.event = "Apply"
    /\ ~Created(objs[last'.id])
    /\ ExternalExists(World, last'.id)

C28_Original ==
    [][/\ C28_NoRollback
       /\ C28_RetryCase =>
             CreateCallsFor(last', last'.id, objs[last'.id].spec) # {}]_vars

\* C28 amended: ... and the next Apply issues the create call again for the
\* external object that exists already, unless a step before the create call
\* fails (the request event, the load of the resource or of its owner, a
\* check of the spec); then it ends in failure without any adapter call.
C28_RetryCreatesAgain ==
    [][/\ C28_NoRollback
       /\ C28_RetryCase =>
             \/ CreateCallsFor(last', last'.id, objs[last'.id].spec) # {}
             \/ /\ last'.out.tag # "ok"
                /\ \A i \in CallIdx(last') : ~IsAdapterCall(last'.calls[i])]_vars

C28_Witness ==
    /\ last.id \in DatabaseIds
    /\ last.event = "Apply"
    /\ ~last.created
    /\ \E i \in CreateCallsFor(last, last.id, objs[last.id].spec) :
          ~last.calls[i].ok
    /\ ExternalExists(World, last.id)
    /\ objs[last.id].applied
    /\ last.f = 0

\* ------------------------------------------------------------------------
\* C29: when the resource no longer exists at the moment its reconciliation
\* loads it (the load fails with NotFound), the outcome is terminal: no
\* error is counted and no retry or re-check is scheduled for the object.
\* ------------------------------------------------------------------------
\* the load of the reconciled object itself failed with NotFound
LoadNotFound(run) ==
    /\ run.gone
    /\ \E i \in CallIdx(run) :
          /\ run.calls[i] = Call("kube", "get", run.id, FALSE)
          /\ run.f # i

C29_GoneIsTerminal ==
    [][(last'.id \in ResIds /\ LoadNotFound(last')) =>
          /\ last'.counted = <<>>
          /\ failures' = failures
          /\ last'.action = await_change]_vars

\* ------------------------------------------------------------------------
\* C30: create-bucket, delete-bucket, create-key and delete-key each send
\* one request per invocation and return an error for a transport failure
\* and for a non-success status. No reconciliation sends the request of one
\* of them twice; a failed request is the last call of its reconciliation,
\* which fails with GarageClientError and leaves the status as it was.
\* ------------------------------------------------------------------------
IsStorageObjectCall(c) ==
    c.sys = "garage" /\ c.op \in {"CreateBucket", "DeleteBucket", "DeleteKey"}

C30_StorageCallsOnce ==
    [][last'.id \in ResIds =>
         /\ \A op \in {"CreateBucket", "DeleteBucket", "DeleteKey"} :
               Cardinality({i \in CallIdx(last') :
                               /\ last'.calls[i].sys = "garage"
                               /\ last'.calls[i].op = op}) <= 1
         /\ \A i \in CallIdx(last') :
               (IsStorageObjectCall(last'.calls[i]) /\ ~last'.calls[i].ok) =>
                  /\ i = Len(last'.calls)
                  /\ last'.out.tag = "err"
                  /\ last'.out.err.kind = "GarageClientError"
                  /\ last'.out.err.stage \in {"ApplyFailed", "CleanupFailed"}
                  /\ last'.action = requeue(RequeueSecs)
                  /\ objs'[last'.id].status = objs[last'.id].status
         /\ \A i \in CallIdx(last') :
               (IsStorageObjectCall(last'.calls[i]) /\ last'.f = i) =>
                  ~last'.calls[i].ok]_vars

C30_Witness ==
    /\ last.id \in TokenIds
    /\ last.event = "Cleanup"
    /\ last.f = 0
    /\ last.calls[Len(last.calls)].op = "DeleteKey"
    /\ ~last.calls[Len(last.calls)].ok
    /\ objs[last.id].status # <<>>

\* ------------------------------------------------------------------------
\* C31: the events of an Apply
\* ------------------------------------------------------------------------
PublishCalls(run, reason) ==
    {i \in CallIdx(run) :
        /\ run.calls[i].sys = "recorder"
        /\ run.calls[i].arg.reason = reason}

\* the calls of an Apply that change something outside the API object: the
\* adapter's calls and the creation of the secret
IsEffectCall(c) == IsAdapterCall(c) \/ c.sys = "secret"

\* the calls whose success the kind's Apply needs before it reports
\* completion: the create call and, for User and Token, the secret and the
\* two permission calls
CompletionNeeds(id) ==
    CASE id[1] = "Database" -> {<<"sql", "execute">>}
      [] id[1] = "User" -> {<<"sql", "execute">>, <<"secret", "create">>}
      [] id[1] = "Bucket" -> {<<"garage", "CreateBucket">>}
      [] id[1] = "Token" ->
            {<<"garage", "CreateBucket">>, <<"secret", "create">>,
             <<"garage", "AllowBucketKey">>, <<"garage", "DenyBucketKey">>}

ValidationErrors ==
    {"PostgresqlIllegalDatabase", "PostgresqlIllegalUser",
     "PostgresqlUnknownServer", "PostgresqlUserAndDatabaseServerNotMatching"}

\* C31: in an Apply that does work, every adapter call and the secret
\* creation come after a 'creation requested' event that was published; a
\* 'creation completed' event comes after the successful create call (and
\* secret and permission calls) of the kind, with no failed call before it
\* and the status patch only after it; an Apply that fails validation or in
\* which an adapter call fails publishes no 'creation completed' event.
C31_ApplyEvents ==
    (last.event = "Apply" /\ ~last.created) =>
        /\ \A i \in CallIdx(last) :
              (IsEffectCall(last.calls[i]) \/ last.calls[i].sys = "kube") =>
                 \E r \in PublishCalls(last, "CreationRequested") :
                    r = 1 /\ r < i /\ last.calls[r].ok
        /\ Cardinality(PublishCalls(last, "CreationRequested")) <= 1
        /\ Cardinality(PublishCalls(last, "CreationCompleted")) <= 1
        /\ \A c \in PublishCalls(last, "CreationCompleted") :
              /\ \A i \in 1..(c - 1) : last.calls[i].ok
              /\ \A need \in CompletionNeeds(last.id) :
                    \E i \in 1..(c - 1) :
                       /\ last.calls[i].sys = need[1]
                       /\ last.calls[i].op = need[2]
                       /\ last.calls[i].ok
              /\ \A i \in 1..(c - 1) : last.calls[i].op # "patch_status"
              /\ \A i \in CallIdx(last) :
                    IsEffectCall(last.calls[i]) => i < c
        /\ \A k \in PatchCalls(last) :
              \E c \in PublishCalls(last, "CreationCompleted") :
                 c < k /\ last.calls[c].ok
        /\ (\/ last.out.err.kind \in ValidationErrors
            \/ \E i \in CallIdx(last) :
                  IsAdapterCall(last.calls[i]) /\ ~last.calls[i].ok)
              => PublishCalls(last, "CreationCompleted") = {}

\* a Token's Apply published 'creation completed' after its four calls
C31_Witness ==
    /\ last.event = "Apply"
    /\ ~last.created
    /\ last.id \in TokenIds
    /\ \E c \in PublishCalls(last, "CreationCompleted") :
          last.calls[c].ok /\ c = 7

\* ------------------------------------------------------------------------
\* C32: the lock of the diagnostics record
\* ------------------------------------------------------------------------
\* the task holds a guard of the lock
Holds(t) == t \in lock.writer \cup lock.readers

\* C32: at most one reconciliation holds the write guard; while one does,
\* no request of the endpoint holds a read guard (a reader reads only under
\* its guard); and a reconciliation that is in its Apply or Cleanup holds no
\* guard, so the lock is free for the others however long it takes.
C32_LockDiscipline ==
    /\ Cardinality(lock.writer) <= 1
    /\ lock.writer # {} => lock.readers = {}
    /\ lock.writer \subseteq ResIds /\ lock.readers \subseteq Readers
    /\ \A t \in Tasks : Holds(t) <=> pc[t] = "holding"
    /\ \A id \in ResIds : pc[id] = "working" => ~Holds(id)
    /\ \A id \in ResIds :
          (pc[id] = "working" /\ lock.queue # <<>>) =>
             \/ ENABLED Grant(Head(lock.queue))
             \/ \E t \in Tasks : pc[t] = "holding"

\* one reconciliation is in its Apply while another holds the write guard
\* and a request waits
C32_Witness ==
    /\ \E a \in ResIds : \E b \in ResIds \ {a} :
          pc[a] = "working" /\ b \in lock.writer
    /\ \E r \in Readers : pc[r] = "waiting"

\* ------------------------------------------------------------------------
\* C33: set_bucket_permissions when the Allow request fails
\* ------------------------------------------------------------------------
PermissionCalls(run, kind) ==
    {i \in CallIdx(run) :
        run.calls[i].sys = "garage" /\ run.calls[i].op = kind}

\* C33: in a Token's Apply a DenyBucketKey request follows at once on an
\* AllowBucketKey request with the same body that succeeded; when the Allow
\* request fails it is the last call of the Apply: no Deny request, a
\* GarageClientError out of Apply, no status patch and status.created still
\* unset, while the key this Apply created and the secret that holds it
\* are there.
C33_AllowFailureStopsApply ==
    (last.id \in TokenIds /\ last.event = "Apply" /\ ~last.created) =>
        /\ \A d \in PermissionCalls(last, "DenyBucketKey") :
              /\ d - 1 \in PermissionCalls(last, "AllowBucketKey")
              /\ last.calls[d - 1].ok
              /\ last.calls[d - 1].arg = last.calls[d].arg
        /\ \A a \in PermissionCalls(last, "AllowBucketKey") :
              ~last.calls[a].ok =>
                 /\ a = Len(last.calls)
                 /\ PermissionCalls(last, "DenyBucketKey") = {}
                 /\ PatchCalls(last) = {}
                 /\ last.out.tag = "err"
                 /\ last.out.err.stage = "ApplyFailed"
                 /\ last.out.err.kind = "GarageClientError"
                 /\ ~Created(objs[last.id])
                 /\ \E k \in keys.live :
                       /\ k.id = last.calls[a].arg.accessKeyId
                       /\ k.name = objs[last.id].spec.name
                       /\ secrets[objs[last.id].spec.tokenSecretName].present
                       /\ secrets[objs[last.id].spec.tokenSecretName]
                             .data.accessKeyId = k.id

\* the storage turned the Allow request down although bucket and key exist
C33_Witness ==
    /\ last.id \in TokenIds
    /\ last.event = "Apply"
    /\ \E a \in PermissionCalls(last, "AllowBucketKey") :
          /\ ~last.calls[a].ok
          /\ last.f = a
          /\ \E b \in buckets.live : b.id = last.calls[a].arg.bucketId

\* ------------------------------------------------------------------------
\* C34: every resource that can be created is created in the end
\* ------------------------------------------------------------------------
\* the object is in the API server, nobody asked for its deletion, and the
\* controller loop of its kind runs
Wanted(x) == objs[x].present /\ ~objs[x].deleting /\ x[1] \in alive

\* the dependency of a Database or Token is there and created
DependencyCreated(x) ==
    x[1] \in {"Database", "Token"} =>
        /\ objs[DependencyOf(x)].present
        /\ ~objs[DependencyOf(x)].deleting
        /\ Created(objs[DependencyOf(x)])

\* the spec is one Apply accepts, the backend is registered and can take
\* the object (the storage has an id left to assign)
Creatable(x) ==
    CASE x[1] = "User" ->
            ~is_illegal(x[2]) /\ contains_key(objs[x].spec.server)
      [] x[1] = "Database" ->
            /\ ~is_illegal(x[2])
            /\ contains_key(objs[x].spec.server)
            /\ objs[DependencyOf(x)].present =>
                  servers_match(objs[DependencyOf(x)], objs[x])
      [] x[1] = "Bucket" -> buckets.issued < Len(BucketIdPool)
      [] x[1] = "Token" -> keys.issued < Len(KeyIdPool)

\* C34: where no call fails in transit and reconciliation is weakly fair, a
\* resource that is wanted, has a spec Apply accepts on a registered
\* backend, and whose dependency is there and created, is created in the
\* end, unless it or its dependency is deleted first or a panic ends the
\* controller loop of its kind.
C34_EventuallyCreated ==
    \A x \in ResIds :
        (Wanted(x) /\ Creatable(x) /\ DependencyCreated(x))
            ~> (Created(objs[x]) \/ ~Wanted(x) \/ ~DependencyCreated(x))

\* ------------------------------------------------------------------------
\* C35: every resource whose deletion is requested is removed in the end
\* ------------------------------------------------------------------------
\* nothing but the state of the resource itself stands in the way of its
\* Cleanup: the server of a User or Database is registered, and no database
\* in the backend is owned by the role of the User
Deletable(x) ==
    /\ x[1] \in {"User", "Database"} => contains_key(objs[x].spec.server)
    /\ x[1] = "User" =>
          \A sv \in PostgresqlClients : \A d \in dbs[sv] : d.owner # name(x)

\* C35: where no call fails in transit and reconciliation is weakly fair, a
\* resource that carries the marker and whose deletion is requested loses
\* the marker (and with it, unless another finalizer holds it, leaves the
\* API server) in the end, whatever state it was in, unless a panic ends
\* the controller loop of its kind.
C35_EventuallyRemoved ==
    \A x \in ResIds :
        (objs[x].present /\ objs[x].deleting /\ HasMarker(objs[x])
            /\ x[1] \in alive /\ Deletable(x))
            ~> (\/ ~objs[x].present
                \/ ~HasMarker(objs[x])
                \/ x[1] \notin alive
                \/ ~Deletable(x))

\* ------------------------------------------------------------------------
\* C36: external objects and the resources they belong to
\* ------------------------------------------------------------------------
\* the resource is in the API server and carries the marker
Kept(x) == objs[x].present /\ HasMarker(objs[x])

\* C36: every role, database, bucket and access key in a backend belongs to
\* a resource that is in the API server and carries the marker: the User or
\* Database of that name on that server, the Bucket of that alias, the Token
\* of that key name (what a Cleanup deleted is in no backend any more).
C36_NoOrphans ==
    /\ \A sv \in PostgresqlClients : \A r \in roles[sv] :
          \E x \in UserIds :
             Kept(x) /\ name(x) = r.name /\ objs[x].spec.server = sv
    /\ \A sv \in PostgresqlClients : \A d \in dbs[sv] :
          \E x \in DatabaseIds :
             Kept(x) /\ name(x) = d.name /\ objs[x].spec.server = sv
    /\ \A b \in buckets.live :
          \E x \in BucketIds : Kept(x) /\ objs[x].spec.name = b.alias
    /\ \A k \in keys.live :
          \E x \in TokenIds : Kept(x) /\ objs[x].spec.name = k.name

\* ------------------------------------------------------------------------
\* C37: the order of DROP USER and CREATE DATABASE between the two kinds
\* ------------------------------------------------------------------------
\* the statements of that verb the reconciliation sent
Statements(run, verb) ==
    {i \in CallIdx(run) :
        IsSqlCall(run.calls[i]) /\ run.calls[i].arg.stmt.verb = verb}

\* C37: a reconciliation sends no DROP USER for a role that owns a database
\* in that backend, and no CREATE DATABASE whose owner is not a role of
\* that backend. (A reconciliation of a User leaves the databases as they
\* are and one of a Database the roles, so the backend after the
\* reconciliation shows what the statement met.)
C37_OwnerOrdering ==
    /\ \A i \in Statements(last, "DROP USER") :
          \A d \in dbs[last.calls[i].arg.server] :
             d.owner # last.calls[i].arg.stmt.name
    /\ \A i \in Statements(last, "CREATE DATABASE") :
          last.calls[i].arg.stmt.owner
             \in RoleNames(World, last.calls[i].arg.server)

\* ------------------------------------------------------------------------
\* C38: one create call and at most one delete call per lifetime
\* ------------------------------------------------------------------------
CreateCalls(run) == {i \in CallIdx(run) : IsCreateCall(run.calls[i])}

\* the reconciliation and every call it made succeeded
Unfailed(run) == run.out.tag = "ok" /\ AllCallsOk(run)

\* C38: a reconciliation issues the adapter's create call only for a
\* resource whose status is not created and which is not being deleted, and
\* the delete call only for a marked resource that is being deleted. When
\* neither the reconciliation nor any of its calls fails, an Apply of a
\* resource that is not created issues exactly one create call and leaves
\* status.created = true, an Apply of a created resource (the periodic
\* re-check) issues none, and a Cleanup issues exactly one delete call and
\* leaves the resource without the marker. status.created never reverts and
\* the marker never comes back while the object lives, so over the lifetime
\* of a resource the create call is issued once and the delete call at most
\* once, however many re-checks run.
C38_CreateOnceDeleteOnce ==
    [][/\ \A id \in ResIds :
             /\ (objs[id].present /\ Created(objs[id]) /\ objs'[id].present) =>
                   Created(objs'[id])
             /\ (/\ objs[id].present /\ objs[id].deleting
                 /\ FINALIZER \notin objs[id].finalizers
                 /\ objs'[id].present) =>
                   /\ objs'[id].deleting
                   /\ FINALIZER \notin objs'[id].finalizers
       /\ last'.id \in ResIds =>
             /\ CreateCalls(last') # {} =>
                   /\ last'.event = "Apply"
                   /\ ~Created(objs[last'.id])
                   /\ ~objs[last'.id].deleting
             /\ DeleteCalls(last') # {} =>
                   /\ last'.event = "Cleanup"
                   /\ objs[last'.id].deleting
                   /\ FINALIZER \in objs[last'.id].finalizers
             /\ Unfailed(last') =>
                   /\ (last'.event = "Apply" /\ ~Created(objs[last'.id])) =>
                         /\ Cardinality(CreateCalls(last')) = 1
                         /\ Created(objs'[last'.id])
                   /\ (last'.event = "Apply" /\ Created(objs[last'.id])) =>
                         /\ CreateCalls(last') = {}
                         /\ objs'[last'.id].status = objs[last'.id].status
                   /\ last'.event = "Cleanup" =>
                         /\ Cardinality(DeleteCalls(last')) = 1
                         /\ \/ ~objs'[last'.id].present
                            \/ FINALIZER \notin objs'[last'.id].finalizers]_vars

\* a periodic re-check of a created Database or Bucket whose external
\* object exists: nothing is created again
C38_Witness ==
    /\ last.id \in DatabaseIds \cup BucketIds
    /\ last.event = "Apply"
    /\ last.created
    /\ Unfailed(last)
    /\ CreateCalls(last) = {}
    /\ objs[last.id].present
    /\ ExternalExists(World, last.id)
    /\ last.action = requeue(RequeueSecs)

\* ------------------------------------------------------------------------
\* C39: Apply on a Database (not yet created) whose owner User exists but
\* has no status yet ends in an ordinary error outcome that is counted and
\* retried after 300 seconds, and issues no CREATE DATABASE; CREATE DATABASE
\* is only ever issued with an owner name taken from a User whose status is
\* set.
\* ------------------------------------------------------------------------
C39_OwnerWithoutStatus ==
    [][(/\ last'.id \in DatabaseIds
        /\ last'.event = "Apply"
        /\ ~Created(objs[last'.id])) =>
          /\ (/\ objs[OwnerOf(last'.id)].present
              /\ objs[OwnerOf(last'.id)].status = <<>>) =>
                /\ last'.out.tag = "err"
                /\ last'.counted # <<>>
                /\ last'.action = requeue(RequeueSecs)
                /\ failures' # failures
                /\ Statements(last', "CREATE DATABASE") = {}
          /\ \A i \in Statements(last', "CREATE DATABASE") :
                /\ objs[OwnerOf(last'.id)].present
                /\ objs[OwnerOf(last'.id)].status # <<>>
                /\ last'.calls[i].arg.stmt.owner =
                      objs[OwnerOf(last'.id)].status[1].name]_vars

\* ------------------------------------------------------------------------
\* C40: the secret of a created User carries the password of its role
\* ------------------------------------------------------------------------
\* the role of the User in the backend
RoleOf(u) ==
    IF objs[u].spec.server \in PostgresqlClients
    THEN {r \in roles[objs[u].spec.server] : r.name = name(u)}
    ELSE {}

\* C40: in every state, if a User has status.created = true then the
\* secret named spec.password_secret_name exists and carries the User's
\* role name, and its password field is the password of the role in the
\* backend: the role exists (until the Cleanup of the User drops it) and its
\* password, the one of the CREATE USER statement that succeeded, is the
\* secret's. This holds whatever Applies failed and were retried before the
\* successful one.
C40_SecretMatchesRole ==
    \A u \in UserIds :
        (objs[u].present /\ Created(objs[u])) =>
            /\ secrets[objs[u].spec.password_secret_name].present
            /\ secrets[objs[u].spec.password_secret_name].data.username = name(u)
            /\ \A r \in RoleOf(u) :
                  secrets[objs[u].spec.password_secret_name].data.password
                     = r.password
            /\ ~objs[u].deleting => RoleOf(u) # {}
            /\ Cardinality(RoleOf(u)) <= 1

\* a User created by an Apply that followed an earlier Apply of it, which
\* had failed
C40_Witness ==
    /\ last.id \in UserIds
    /\ last.event = "Apply"
    /\ last.applied
    /\ ~last.created
    /\ last.out.tag = "ok"
    /\ objs[last.id].present
    /\ Created(objs[last.id])
    /\ RoleOf(last.id) # {}
    /\ \A r \in RoleOf(last.id) :
          secrets[objs[last.id].spec.password_secret_name].data.password
             = r.password

====
